---- MODULE Spec2Model ----
(***************************************************************************)
(* Model of the transit route diagram (src/assets/diagram.js): route       *)
(* selection, route ordering, major-stop selection, the stop position      *)
(* engine, and the BusDiagram component that runs them on a hash change.   *)
(*                                                                         *)
(* Conventions.  Stop ids are modelled by naturals standing for their      *)
(* String() image, so matchesStop (number or string form of the same id)   *)
(* is equality.  Stop names are naturals; the name an id without a stop    *)
(* directory entry falls back to, String(id), is UnnamedBase + id.         *)
(* Positions are exact rationals <<numerator, denominator>> (the source    *)
(* computes them in floating point).  Sequences are 1-based, so a source   *)
(* index idx is i - 1 here.                                                *)
(***************************************************************************)
EXTENDS Integers, Sequences, FiniteSets, TLC

VARIABLES
    servicesData,        \* route catalog: routeId -> sequence of stop-sequence variants
    stopsData,           \* stop directory: stop id -> name
    rankingData,         \* ranking source: stop id -> score
    scheduleSource,      \* trip-count source: what a successful schedule fetch returns
    hash,                \* location.hash: the stop the URL names
    currentStopId,       \* useState currentStopId (0 = null)
    routes,              \* useState routes
    orderedStops,        \* useState orderedStops
    error,               \* useState error ("none" = null)
    loading,             \* useState loading
    targetMajorStops,    \* useState targetMajorStops
    countMajorRoutes,    \* useState countMajorRoutes
    targetMajorStopsRef, \* targetMajorStopsRef.current
    countMajorRoutesRef, \* countMajorRoutesRef.current
    pending,             \* schedule fetches in flight, one record per handleHashChange run
    input,               \* routesWithTripCounts handed to processRoutes (pipeline runs)
    stopPosMap,          \* result of createStopPositionMap: stop id -> position
    pc,                  \* stage of a pipeline run
    history,             \* log of the completed requests and what each one displayed
    labelData,           \* the stop labels the render effect lays out: [text, x, originalX]
    busStop,             \* arrival page: useState busStop, by its code (0 = null)
    liveArrivalsEnabled, \* arrival page: cityConfig.liveArrivals.enabled
    fetchServicesStatus, \* arrival page: useState fetchServicesStatus ("null" = null)
    services,            \* arrival page: useState services, by where they came from
    fetching,            \* arrival page: the fetchServices runs under way, each at its stage
    fetchRuns,           \* arrival page: how often fetchServices has run
    intervalId,          \* vehicle tracker: let intervalId (0 = null)
    intervals,           \* vehicle tracker: the intervals set and not cleared, by handle
    trackedServices,     \* vehicle tracker: the Set trackedServices
    routeIdCache,        \* vehicle tracker: the services with an entry in routeIdCache
    startCalls,          \* vehicle tracker: the startServices calls at an await
    stopped              \* vehicle tracker: stop() ran and startServices has not since

vars == <<servicesData, stopsData, rankingData, scheduleSource, hash, currentStopId, routes,
          orderedStops, error, loading, targetMajorStops, countMajorRoutes,
          targetMajorStopsRef, countMajorRoutesRef, pending, input, stopPosMap, pc, history,
          labelData, busStop, liveArrivalsEnabled, fetchServicesStatus, services, fetching,
          fetchRuns, intervalId, intervals, trackedServices, routeIdCache, startCalls,
          stopped>>

\* the state of one vehicle tracker
trackerVars == <<intervalId, intervals, trackedServices, routeIdCache, startCalls, stopped>>

\* the state of the arrival page and of its vehicle tracker
arrivalVars == <<busStop, liveArrivalsEnabled, fetchServicesStatus, services, fetching,
                 fetchRuns, trackerVars>>

----------------------------------------------------------------------------
(* Program constants (diagram.js:12-18).                                   *)
DEFAULT_TARGET_MAJOR_STOPS == 5
DEFAULT_COUNT_MAJOR_ROUTES == 8
MIN_SPACING_PERCENT == 15
MIN_SPACING_INDEPENDENT == 5
MIN_POSITION_DIFF == 2
LEFT_PADDING == 5
RIGHT_PADDING == 10
BackAnchorCap == 95
UnnamedBase == 100

----------------------------------------------------------------------------
(* Exact rational arithmetic.                                              *)
Abs(x) == IF x < 0 THEN -x ELSE x

RECURSIVE Gcd(_, _)
Gcd(a, b) == IF b = 0 THEN a ELSE Gcd(b, a % b)

Rat(n, d) ==
    LET s == IF d < 0 THEN -1 ELSE 1
        g == Gcd(Abs(n), Abs(d))
    IN  <<(s * n) \div g, (s * d) \div g>>

R(n) == <<n, 1>>
RAdd(a, b) == Rat(a[1] * b[2] + b[1] * a[2], a[2] * b[2])
RSub(a, b) == Rat(a[1] * b[2] - b[1] * a[2], a[2] * b[2])
RMul(a, b) == Rat(a[1] * b[1], a[2] * b[2])
RDiv(a, b) == Rat(a[1] * b[2], a[2] * b[1])
RLt(a, b) == a[1] * b[2] < b[1] * a[2]
RLe(a, b) == a[1] * b[2] <= b[1] * a[2]
RAbs(a) == <<Abs(a[1]), a[2]>>
RMin(a, b) == IF RLe(a, b) THEN a ELSE b
RMax(a, b) == IF RLe(a, b) THEN b ELSE a

----------------------------------------------------------------------------
(* Sequence helpers standing for Array / Set / Map operations.             *)
Range(s) == {s[i] : i \in DOMAIN s}
InSeq(x, s) == \E i \in DOMAIN s : s[i] = x
\* Array.prototype.findIndex / indexOf: first index, 0 when absent (-1 in JS)
IndexOf(s, x) == IF InSeq(x, s) THEN CHOOSE i \in DOMAIN s : s[i] = x /\ \A j \in 1..(i - 1) : s[j] # x
                 ELSE 0
\* Set.add on an insertion-ordered Set
SetAdd(s, x) == IF InSeq(x, s) THEN s ELSE Append(s, x)
\* arr.slice(from0) with a 0-based start
SliceFrom(s, from0) == SubSeq(s, from0 + 1, Len(s))
\* insertion-ordered Map as a sequence of <<key, value>>
MapHas(m, k) == \E i \in DOMAIN m : m[i][1] = k
MapGet(m, k) == m[CHOOSE i \in DOMAIN m : m[i][1] = k][2]
MapSet(m, k, v) ==
    IF MapHas(m, k) THEN [i \in DOMAIN m |-> IF m[i][1] = k THEN <<k, v>> ELSE m[i]]
    ELSE Append(m, <<k, v>>)
MapValues(m) == [i \in DOMAIN m |-> m[i][2]]

RECURSIVE Dedup(_)
Dedup(s) == IF s = <<>> THEN <<>> ELSE SetAdd(Dedup(SubSeq(s, 1, Len(s) - 1)), s[Len(s)])

----------------------------------------------------------------------------
(* Helper functions of diagram.js.                                         *)
findStopIndex(sequence, stopId) == IndexOf(sequence, stopId)

getStopName(stopId, sd) == IF stopId \in DOMAIN sd THEN sd[stopId] ELSE UnnamedBase + stopId

RouteHasStop(route, stopId) == InSeq(stopId, route.stopSequence)

\* findAvailablePosition: one pass over usedPositions in iteration order
RECURSIVE FapFrom(_, _, _)
FapFrom(pos, used, i) ==
    IF i > Len(used) THEN pos
    ELSE IF RLt(RAbs(RSub(pos, used[i])), R(MIN_POSITION_DIFF))
         THEN LET bumped == RAdd(used[i], R(MIN_POSITION_DIFF))
              IN  IF RLt(R(100 - RIGHT_PADDING), bumped)
                  THEN R(100 - RIGHT_PADDING)
                  ELSE FapFrom(bumped, used, i + 1)
         ELSE FapFrom(pos, used, i + 1)

findAvailablePosition(desiredPos, usedPositions) == FapFrom(desiredPos, usedPositions, 1)

----------------------------------------------------------------------------
(* createStopPositionMap (diagram.js:195-452).                             *)
MinOf(S) == CHOOSE x \in S : \A y \in S : x <= y
MaxInt(a, b) == IF a >= b THEN a ELSE b

usableWidth == 100 - LEFT_PADDING - RIGHT_PADDING

\* orderedStops without the current stop (the guard of every forEach over it)
NonCurrentStops(os, cur) ==
    LET Keep(s) == s # cur IN SelectSeq(os, Keep)

\* names in first-seen order: the key order of stopIdToName / nameToRoutes
OrderedNames(os, cur, sd) ==
    LET nc == NonCurrentStops(os, cur)
    IN  Dedup([i \in DOMAIN nc |-> getStopName(nc[i], sd)])

\* nameToRoutes[name]: indices of the routes whose stopSequence has an id of that name
NameToRoutes(rts, os, cur, sd, name) ==
    LET nc == NonCurrentStops(os, cur)
    IN  {ri \in DOMAIN rts :
            \E i \in DOMAIN nc : getStopName(nc[i], sd) = name /\ RouteHasStop(rts[ri], nc[i])}

UniversalStops(rts, os, cur, sd) ==
    {n \in Range(OrderedNames(os, cur, sd)) :
        Cardinality(NameToRoutes(rts, os, cur, sd, n)) = Len(rts)}

\* MergeGroups that leaves the merged groups in place (no groups[i] = null)
MergeGroupsKeepMerged(groups, routeSet) ==
    LET groupsToMerge == {g \in DOMAIN groups : groups[g] # {} /\ groups[g] \cap routeSet # {}}
    IN  IF Cardinality(groupsToMerge) > 1
        THEN LET target == MinOf(groupsToMerge)
             IN  [g \in DOMAIN groups |->
                    IF g = target THEN UNION {groups[h] : h \in groupsToMerge}
                    ELSE groups[g]]
        ELSE groups

\* one step of the group merge: a merged-away group is null, modelled by {}
MergeGroups(groups, routeSet) ==
    LET groupsToMerge == {g \in DOMAIN groups : groups[g] # {} /\ groups[g] \cap routeSet # {}}
    IN  IF Cardinality(groupsToMerge) > 1
        THEN LET target == MinOf(groupsToMerge)
             IN  [g \in DOMAIN groups |->
                    IF g = target THEN UNION {groups[h] : h \in groupsToMerge}
                    ELSE IF g \in groupsToMerge THEN {} ELSE groups[g]]
        ELSE groups

RECURSIVE RouteGroupsFrom(_, _, _, _, _, _, _, _)
RouteGroupsFrom(groups, names, i, universal, rts, os, cur, sd) ==
    IF i > Len(names) THEN groups
    ELSE LET routeSet == NameToRoutes(rts, os, cur, sd, names[i])
             skip == Cardinality(routeSet) < 2 \/ names[i] \in universal
         IN  RouteGroupsFrom(IF skip THEN groups ELSE MergeGroups(groups, routeSet),
                             names, i + 1, universal, rts, os, cur, sd)

RouteGroups(rts, os, cur, sd) ==
    LET merged == RouteGroupsFrom([i \in DOMAIN rts |-> {i}], OrderedNames(os, cur, sd), 1,
                                  UniversalStops(rts, os, cur, sd), rts, os, cur, sd)
        NotNull(g) == g # {}
    IN  SelectSeq(merged, NotNull)

CrossGroupStops(rts, os, cur, sd) ==
    LET universal == UniversalStops(rts, os, cur, sd)
        routeGroups == RouteGroups(rts, os, cur, sd)
    IN  universal \cup
        {n \in Range(OrderedNames(os, cur, sd)) :
            LET routeSet == NameToRoutes(rts, os, cur, sd, n)
                involvedGroups == {g \in DOMAIN routeGroups : routeGroups[g] \cap routeSet # {}}
            IN  /\ Cardinality(routeSet) >= 2
                /\ n \notin universal
                /\ Cardinality(involvedGroups) > 1}

OrderedCrossGroupNames(rts, os, cur, sd) ==
    LET cross == CrossGroupStops(rts, os, cur, sd)
        IsCross(n) == n \in cross
    IN  SelectSeq(OrderedNames(os, cur, sd), IsCross)

\* desired position of the idx-th (0-based) of n names laid out from `from` up to `to`
SpreadPosition(idx, n, from, to) ==
    IF n * MIN_SPACING_PERCENT <= usableWidth
    THEN RAdd(from, R(idx * MIN_SPACING_PERCENT))
    ELSE RAdd(from, RMul(Rat(idx, MaxInt(n - 1, 1)), RSub(to, from)))

\* cross-group placement: the map name -> position, in placement order
RECURSIVE CrossPlace(_, _, _, _)
CrossPlace(names, i, placed, usedPositions) ==
    IF i > Len(names) THEN placed
    ELSE LET desiredPos == SpreadPosition(i - 1, Len(names), R(LEFT_PADDING),
                                          R(LEFT_PADDING + usableWidth))
             pos == findAvailablePosition(desiredPos, usedPositions)
         IN  CrossPlace(names, i + 1, MapSet(placed, names[i], pos), SetAdd(usedPositions, pos))

CrossGroupNameToPosition(rts, os, cur, sd) ==
    CrossPlace(OrderedCrossGroupNames(rts, os, cur, sd), 1, <<>>, <<>>)

IndependentGroupStartPos(crossMap) ==
    LET lastCrossGroupPosition ==
            IF Len(crossMap) > 0
            THEN (IF crossMap[Len(crossMap)][2][1] = 0 THEN R(LEFT_PADDING)
                  ELSE crossMap[Len(crossMap)][2])
            ELSE R(LEFT_PADDING)
    IN  RMin(RAdd(lastCrossGroupPosition, R(MIN_SPACING_PERCENT)), R(100 - RIGHT_PADDING))

\* names common to a group: shared by >= 2 routes, not cross-group, all routes in the group
GroupCommonNames(group, cross, rts, os, cur, sd) ==
    LET IsCommon(n) ==
            LET routeSet == NameToRoutes(rts, os, cur, sd, n)
            IN  Cardinality(routeSet) >= 2 /\ n \notin cross /\ routeSet \subseteq group
    IN  SelectSeq(OrderedNames(os, cur, sd), IsCommon)

\* placement of one group's common names; st = [gpm, pbri, ntp]:
\* globalPositionMap, positionByRelativeIndex (by idx + 1), this group's nameToPosition
RECURSIVE GroupPlace(_, _, _, _, _)
GroupPlace(names, i, st, startPos, crossGroupPositions) ==
    IF i > Len(names) THEN st
    ELSE LET desiredPos == IF i <= Len(st.pbri) THEN st.pbri[i]
                           ELSE SpreadPosition(i - 1, Len(names), startPos,
                                               R(100 - RIGHT_PADDING))
             pos == findAvailablePosition(desiredPos, crossGroupPositions)
         IN  GroupPlace(names, i + 1,
                        [gpm  |-> MapSet(st.gpm, names[i], pos),
                         pbri |-> IF i <= Len(st.pbri) THEN [st.pbri EXCEPT ![i] = pos]
                                  ELSE Append(st.pbri, pos),
                         ntp  |-> MapSet(st.ntp, names[i], pos)],
                        startPos, crossGroupPositions)

\* the loop over routeGroups; acc = [gpm, pbri, gnp]: gnp[g] is groupNameToPosition.get(group g)
RECURSIVE GroupsPlace(_, _, _, _, _, _, _, _, _)
GroupsPlace(routeGroups, g, acc, cross, startPos, rts, os, cur, sd) ==
    IF g > Len(routeGroups) THEN acc
    ELSE LET st == GroupPlace(GroupCommonNames(routeGroups[g], cross, rts, os, cur, sd), 1,
                              [gpm |-> acc.gpm, pbri |-> acc.pbri, ntp |-> <<>>],
                              startPos, Dedup(MapValues(acc.crossMap)))
         IN  GroupsPlace(routeGroups, g + 1,
                         [gpm |-> st.gpm, pbri |-> st.pbri, gnp |-> Append(acc.gnp, st.ntp),
                          crossMap |-> acc.crossMap],
                         cross, startPos, rts, os, cur, sd)

\* state after the cross-group and independent-group placement
CommonPlacementFrom(crossMap, rts, os, cur, sd) ==
    GroupsPlace(RouteGroups(rts, os, cur, sd), 1,
                [gpm |-> crossMap, pbri |-> <<>>, gnp |-> <<>>, crossMap |-> crossMap],
                CrossGroupStops(rts, os, cur, sd), IndependentGroupStartPos(crossMap),
                rts, os, cur, sd)

CommonPlacement(rts, os, cur, sd) ==
    CommonPlacementFrom(CrossGroupNameToPosition(rts, os, cur, sd), rts, os, cur, sd)

\* the stops of orderedStops a route shows: routeStops / routeStopsInOrder
RouteStops(route, os, cur) ==
    LET Shown(s) == s # cur /\ RouteHasStop(route, s) IN SelectSeq(os, Shown)

\* desired position of a stop that is neither cross-group nor group-common
DesiredPosition(routeStops, stopIndex, groupPositions, crossMap, sd) ==
    LET NameAt(i) == getStopName(routeStops[i], sd)
        IsAnchor(i) == MapHas(groupPositions, NameAt(i)) \/ MapHas(crossMap, NameAt(i))
        backs == {i \in 1..(stopIndex - 1) : IsAnchor(i)}
        fwds == {i \in (stopIndex + 1)..Len(routeStops) : IsAnchor(i)}
        backIdx == IF backs = {} THEN 0 ELSE CHOOSE i \in backs : \A j \in backs : j <= i
        fwdIdx == IF fwds = {} THEN 0 ELSE CHOOSE i \in fwds : \A j \in fwds : i <= j
        getPosition(i) == IF MapHas(groupPositions, NameAt(i))
                          THEN MapGet(groupPositions, NameAt(i))
                          ELSE MapGet(crossMap, NameAt(i))
    IN  IF backIdx # 0 /\ fwdIdx # 0
        THEN LET startPos == getPosition(backIdx)
                 endPos == getPosition(fwdIdx)
                 progress == Rat(stopIndex - backIdx, fwdIdx - backIdx)
             IN  RAdd(startPos, RMul(RSub(endPos, startPos), progress))
        ELSE IF backIdx # 0
        THEN RMin(RAdd(getPosition(backIdx), R((stopIndex - backIdx) * MIN_SPACING_INDEPENDENT)),
                  R(BackAnchorCap))
        ELSE IF fwdIdx # 0
        THEN RMax(RSub(getPosition(fwdIdx), R((fwdIdx - stopIndex) * MIN_SPACING_INDEPENDENT)),
                  R(LEFT_PADDING))
        ELSE IF Len(routeStops) * MIN_SPACING_INDEPENDENT <= usableWidth
        THEN R(LEFT_PADDING + (stopIndex - 1) * MIN_SPACING_INDEPENDENT)
        ELSE RAdd(R(LEFT_PADDING),
                  RMul(Rat(stopIndex - 1, MaxInt(Len(routeStops) - 1, 1)), R(usableWidth)))

\* PlaceStop with the shared positions looked up by stop id instead of by stop name
PlaceStopKeyedById(routeStops, stopIndex, st, groupPositions, crossMap, sd) ==
    LET stopId == routeStops[stopIndex]
        name == getStopName(stopId, sd)
    IN  IF stopId \in DOMAIN st.spm THEN st
        ELSE IF MapHas(crossMap, stopId)
        THEN [st EXCEPT !.spm = st.spm @@ (stopId :> MapGet(crossMap, stopId))]
        ELSE IF MapHas(groupPositions, stopId)
        THEN [st EXCEPT !.spm = st.spm @@ (stopId :> MapGet(groupPositions, stopId))]
        ELSE LET desiredPosition ==
                     DesiredPosition(routeStops, stopIndex, groupPositions, crossMap, sd)
                 position == findAvailablePosition(desiredPosition, MapValues(st.gpm))
             IN  [gpm |-> MapSet(st.gpm, name, position),
                  spm |-> st.spm @@ (stopId :> position)]

\* the body of routeStops.forEach; st = [gpm, spm]
PlaceStop(routeStops, stopIndex, st, groupPositions, crossMap, sd) ==
    LET stopId == routeStops[stopIndex]
        name == getStopName(stopId, sd)
    IN  IF stopId \in DOMAIN st.spm THEN st
        ELSE IF MapHas(crossMap, name)
        THEN [st EXCEPT !.spm = st.spm @@ (stopId :> MapGet(crossMap, name))]
        ELSE IF MapHas(groupPositions, name)
        THEN [st EXCEPT !.spm = st.spm @@ (stopId :> MapGet(groupPositions, name))]
        ELSE LET desiredPosition ==
                     DesiredPosition(routeStops, stopIndex, groupPositions, crossMap, sd)
                 position == findAvailablePosition(desiredPosition, MapValues(st.gpm))
             IN  [gpm |-> MapSet(st.gpm, name, position),
                  spm |-> st.spm @@ (stopId :> position)]

\* routeStops.forEach from the stop at stopIndex on; a stop that has a position is skipped
RECURSIVE PlaceRouteStops(_, _, _, _, _, _)
PlaceRouteStops(routeStops, stopIndex, st, groupPositions, crossMap, sd) ==
    IF stopIndex > Len(routeStops) THEN st
    ELSE IF routeStops[stopIndex] \in DOMAIN st.spm
    THEN PlaceRouteStops(routeStops, stopIndex + 1, st, groupPositions, crossMap, sd)
    ELSE PlaceRouteStops(routeStops, stopIndex + 1,
                         PlaceStop(routeStops, stopIndex, st, groupPositions, crossMap, sd),
                         groupPositions, crossMap, sd)

\* the loop over routes from st, after the body has run for the routes 1..routeIndex
RECURSIVE PlaceRoutes(_, _, _, _, _, _, _, _)
PlaceRoutes(rts, routeIndex, st, routeGroups, common, os, cur, sd) ==
    IF routeIndex = 0 THEN st
    ELSE LET inGroups == {g \in DOMAIN routeGroups : routeIndex \in routeGroups[g]}
             groupPositions == IF inGroups = {} THEN <<>> ELSE common.gnp[MinOf(inGroups)]
             routeStops == RouteStops(rts[routeIndex], os, cur)
         IN  PlaceRouteStops(routeStops, 1,
                             PlaceRoutes(rts, routeIndex - 1, st, routeGroups, common,
                                         os, cur, sd),
                             groupPositions, common.crossMap, sd)

\* stopPositionMap before the normalization step: stop id -> position
RawPositionsFrom(common, rts, os, cur, sd) ==
    PlaceRoutes(rts, Len(rts), [gpm |-> common.gpm, spm |-> <<>>],
                RouteGroups(rts, os, cur, sd), common, os, cur, sd).spm

RawPositions(rts, os, cur, sd) ==
    RawPositionsFrom(CommonPlacement(rts, os, cur, sd), rts, os, cur, sd)

RMinOf(S) == CHOOSE x \in S : \A y \in S : RLe(x, y)
RMaxOf(S) == CHOOSE x \in S : \A y \in S : RLe(y, x)

\* the normalization step (diagram.js:429-449); allPositions is read once, before the shift
NormalizePositions(spm) ==
    LET allPositions == {spm[s] : s \in DOMAIN spm}
    IN  IF allPositions = {} THEN spm
        ELSE LET minPosition == RMinOf(allPositions)
                 shift == RSub(R(LEFT_PADDING), minPosition)
                 shifted == IF RLt(R(LEFT_PADDING), minPosition)
                            THEN [s \in DOMAIN spm |-> RAdd(spm[s], shift)]
                            ELSE spm
                 maxPosition == RMaxOf(allPositions)
                 availableWidth == 100 - RIGHT_PADDING
             IN  IF RLt(maxPosition, R(availableWidth)) /\ RLt(R(LEFT_PADDING), maxPosition)
                 THEN LET scaleFactor == RDiv(R(availableWidth - LEFT_PADDING),
                                              RSub(maxPosition, R(LEFT_PADDING)))
                      IN  [s \in DOMAIN shifted |->
                             RAdd(R(LEFT_PADDING),
                                  RMul(RSub(shifted[s], R(LEFT_PADDING)), scaleFactor))]
                 ELSE shifted

createStopPositionMap(rts, os, cur, sd) == NormalizePositions(RawPositions(rts, os, cur, sd))

----------------------------------------------------------------------------
(* Route selection and ordering (diagram.js:42-159, 573-605, 640-701).     *)

\* Array.prototype.sort with comparator Cmp (negative: first argument first), as the
\* stable insertion sort engines use for short arrays
ArraySort(s, Cmp(_, _)) ==
    LET Insert(acc, x) ==
            LET keep == {j \in DOMAIN acc : Cmp(acc[j], x) <= 0}
                j == IF keep = {} THEN 0 ELSE CHOOSE k \in keep : \A l \in keep : l <= k
            IN  SubSeq(acc, 1, j) \o <<x>> \o SubSeq(acc, j + 1, Len(acc))
        sorted[i \in 0..Len(s)] == IF i = 0 THEN <<>> ELSE Insert(sorted[i - 1], s[i])
    IN  sorted[Len(s)]

RECURSIVE SumSeq(_)
SumSeq(s) == IF s = <<>> THEN 0 ELSE s[1] + SumSeq(Tail(s))

RECURSIVE SumSet(_)
SumSet(S) == IF S = {} THEN 0 ELSE LET x == CHOOSE y \in S : TRUE IN x + SumSet(S \ {x})

Ranking(rd, stopId) == IF stopId \in DOMAIN rd THEN rd[stopId] ELSE 0

\* the route-id tie-break sortServices of utils/bus
sortServices(a, b) == a - b

\* servicesData is the sequence of Object.entries: [routeId, dests], dests the sequence of
\* [destId, sequences]; scheduleData is [present, services]: present is FALSE for null,
\* services the sequence of [no, trip_count]
NoSchedule == [present |-> FALSE, services |-> <<>>]

calculateRouteTripCount(routeId, svc, scheduleData) ==
    LET fromSchedule ==
            IF ~scheduleData.present THEN 0
            ELSE LET Mine(x) == x.no = routeId
                     mine == SelectSeq(scheduleData.services, Mine)
                 IN  SumSeq([i \in DOMAIN mine |-> mine[i].trip_count])
        entries == {i \in DOMAIN svc : svc[i].routeId = routeId}
    IN  IF fromSchedule > 0 THEN fromSchedule
        ELSE IF entries = {} THEN 0
        ELSE LET dests == svc[MinOf(entries)].dests
             IN  SumSeq([d \in DOMAIN dests |-> Len(dests[d].sequences)])

findRoutesForStop(stopId, svc) ==
    LET Serves(d) == \E v \in DOMAIN d.sequences : InSeq(stopId, d.sequences[v])
        Found(e) == \E d \in DOMAIN e.dests : Serves(e.dests[d])
        found == SelectSeq(svc, Found)
    IN  [i \in DOMAIN found |->
            LET dest == found[i].dests[MinOf({d \in DOMAIN found[i].dests :
                                                 Serves(found[i].dests[d])})]
            IN  [routeId |-> found[i].routeId,
                 destinationStopId |-> dest.destId,
                 stopSequence |-> dest.sequences[1]]]

\* selectMajorStops; rd maps the stops to rankings, cur = 0 stands for null
\* selectMajorStops after the sort: sorted is stopsWithRankings by descending ranking
SelectFromRanked(sorted, rd, terminalStops, cur, target) ==
    LET maxRanking == IF sorted = <<>> THEN 0 ELSE Ranking(rd, sorted[1])
        first == (IF cur # 0 THEN {cur} ELSE {}) \cup
                 {x \in Range(sorted) : x \in terminalStops \/ 5 * Ranking(rd, x) >= maxRanking}
        fill[i \in 0..Len(sorted)] ==
            IF i = 0 THEN [sel |-> first, stopped |-> FALSE]
            ELSE LET prev == fill[i - 1]
                 IN  IF prev.stopped \/ (Cardinality(prev.sel) >= target
                                         /\ 2 * Ranking(rd, sorted[i]) < maxRanking)
                     THEN [sel |-> prev.sel, stopped |-> TRUE]
                     ELSE [sel |-> prev.sel \cup {sorted[i]}, stopped |-> FALSE]
        second == fill[Len(sorted)].sel
        minStops == IF Len(sorted) < 5 THEN Len(sorted) ELSE 5
        top[i \in 0..Len(sorted)] ==
            IF i = 0 THEN second
            ELSE IF Cardinality(top[i - 1]) >= minStops THEN top[i - 1]
                 ELSE top[i - 1] \cup {sorted[i]}
    IN  IF Cardinality(second) < minStops THEN top[Len(sorted)] ELSE second

selectMajorStops(stops, rd, terminalStops, cur, target) ==
    LET ByRanking(a, b) == Ranking(rd, b) - Ranking(rd, a)
    IN  SelectFromRanked(ArraySort(stops, ByRanking), rd, terminalStops, cur, target)

\* isLastMajorStopInRoute with the forward stops taken from the selected stop itself
isLastMajorStopInRouteInclusive(route, selectedStopId, rd, target) ==
    LET currentIndex == findStopIndex(route.stopSequence, selectedStopId)
        forwardStops == SliceFrom(route.stopSequence, currentIndex - 1)
        lastStopInRoute == route.stopSequence[Len(route.stopSequence)]
        ByRanking(a, b) == Ranking(rd, b) - Ranking(rd, a)
        ranked == ArraySort(forwardStops, ByRanking)
        majorStopsAfter == selectMajorStops(ranked,
                                            [x \in Range(ranked) |-> Ranking(rd, x)],
                                            {x \in Range(ranked) : x = lastStopInRoute},
                                            0, target)
    IN  IF currentIndex = 0 THEN FALSE
        ELSE IF Len(forwardStops) = 0 THEN TRUE
        ELSE Cardinality(majorStopsAfter) = 0

isLastMajorStopInRoute(route, selectedStopId, rd, target) ==
    LET currentIndex == findStopIndex(route.stopSequence, selectedStopId)
        forwardStops == SliceFrom(route.stopSequence, currentIndex)
        lastStopInRoute == route.stopSequence[Len(route.stopSequence)]
        ByRanking(a, b) == Ranking(rd, b) - Ranking(rd, a)
        ranked == ArraySort(forwardStops, ByRanking)
        majorStopsAfter == selectMajorStops(ranked,
                                            [x \in Range(ranked) |-> Ranking(rd, x)],
                                            {x \in Range(ranked) : x = lastStopInRoute},
                                            0, target)
    IN  IF currentIndex = 0 THEN FALSE
        ELSE IF Len(forwardStops) = 0 THEN TRUE
        ELSE Cardinality(majorStopsAfter) = 0

getAllStopsFromRoutes(rts, cur) ==
    LET Fwd(r) == SliceFrom(rts[r].stopSequence, findStopIndex(rts[r].stopSequence, cur) - 1)
        with == {r \in DOMAIN rts : findStopIndex(rts[r].stopSequence, cur) # 0}
        \* the keys of stopPositions in insertion order
        keys[r \in 0..Len(rts)] ==
            IF r = 0 THEN <<>>
            ELSE IF r \notin with THEN keys[r - 1]
                 ELSE LET fwd == Fwd(r)
                          add[i \in 0..Len(fwd)] ==
                              IF i = 0 THEN keys[r - 1] ELSE SetAdd(add[i - 1], fwd[i])
                      IN  add[Len(fwd)]
        \* the set of forward indices (0-based) at which a stop occurs
        Positions(stopId) == {i - 1 : i \in UNION {{j \in DOMAIN Fwd(r) : Fwd(r)[j] = stopId} : r \in with}}
        \* avgPosition comparison a.avgPosition - b.avgPosition, by cross-multiplication
        ByAvg(a, b) == SumSet(Positions(a)) * Cardinality(Positions(b))
                       - SumSet(Positions(b)) * Cardinality(Positions(a))
    IN  ArraySort(keys[Len(rts)], ByAvg)

\* route.seqForGrouping as processRoutes sets it
SeqForGrouping(route, stopId) ==
    LET currentIndex == findStopIndex(route.stopSequence, stopId)
    IN  IF currentIndex = 0 THEN route.stopSequence
        ELSE SliceFrom(route.stopSequence, currentIndex - 1)

getSequence(route) == route.seqForGrouping

\* stats[i] of buildForwardGroupStats, as the count of `name` at source index idx >= 1
GroupStat(rts, sd, idx, name) ==
    Cardinality({r \in DOMAIN rts :
                    /\ idx + 1 <= Len(getSequence(rts[r]))
                    /\ getStopName(getSequence(rts[r])[idx + 1], sd) = name})

\* the compare function with the smaller group first
RECURSIVE CompareFromSmallerFirst(_, _, _, _, _)
CompareFromSmallerFirst(a, b, idx, rts, sd) ==
    LET sa == getSequence(a)
        sb == getSequence(b)
        hasA == idx + 1 <= Len(sa)
        hasB == idx + 1 <= Len(sb)
        na == IF hasA THEN getStopName(sa[idx + 1], sd) ELSE -1
        nb == IF hasB THEN getStopName(sb[idx + 1], sd) ELSE -1
        ca == IF hasA THEN GroupStat(rts, sd, idx, na) ELSE -1
        cb == IF hasB THEN GroupStat(rts, sd, idx, nb) ELSE -1
    IN  IF idx >= MaxInt(Len(sa), Len(sb)) THEN sortServices(a.routeId, b.routeId)
        ELSE IF na = nb THEN CompareFromSmallerFirst(a, b, idx + 1, rts, sd)
        ELSE IF ca # cb THEN ca - cb
        ELSE IF ~hasA THEN 1
        ELSE IF ~hasB THEN -1
        ELSE na - nb

\* the compare function createGroupSizeComparator returns, stats built from rts
RECURSIVE CompareFrom(_, _, _, _, _)
CompareFrom(a, b, idx, rts, sd) ==
    LET sa == getSequence(a)
        sb == getSequence(b)
        hasA == idx + 1 <= Len(sa)
        hasB == idx + 1 <= Len(sb)
        na == IF hasA THEN getStopName(sa[idx + 1], sd) ELSE -1
        nb == IF hasB THEN getStopName(sb[idx + 1], sd) ELSE -1
        ca == IF hasA THEN GroupStat(rts, sd, idx, na) ELSE -1
        cb == IF hasB THEN GroupStat(rts, sd, idx, nb) ELSE -1
    IN  IF idx >= MaxInt(Len(sa), Len(sb)) THEN sortServices(a.routeId, b.routeId)
        ELSE IF na = nb THEN CompareFrom(a, b, idx + 1, rts, sd)
        ELSE IF ca # cb THEN cb - ca
        ELSE IF ~hasA THEN 1
        ELSE IF ~hasB THEN -1
        ELSE na - nb

\* the comparator without the final route-id tie-break
GroupSizeCompareNoTie(a, b, rts, sd) ==
    LET sa == getSequence(a)
        sb == getSequence(b)
    IN  IF /\ Len(sa) = Len(sb)
           /\ \A i \in 2..Len(sa) : getStopName(sa[i], sd) = getStopName(sb[i], sd)
        THEN 0
        ELSE CompareFrom(a, b, 1, rts, sd)

GroupSizeCompare(a, b, rts, sd) == CompareFrom(a, b, 1, rts, sd)

\* topRoutes with seqForGrouping set (diagram.js:653-662)
TopRoutes(filteredRoutes, stopId, count) ==
    [i \in 1..(IF count < Len(filteredRoutes) THEN count ELSE Len(filteredRoutes)) |->
        [routeId |-> filteredRoutes[i].routeId,
         destinationStopId |-> filteredRoutes[i].destinationStopId,
         stopSequence |-> filteredRoutes[i].stopSequence,
         tripCount |-> filteredRoutes[i].tripCount,
         destinationRanking |-> filteredRoutes[i].destinationRanking,
         seqForGrouping |-> SeqForGrouping(filteredRoutes[i], stopId)]]

\* routesToUse (diagram.js:664-666)
RoutesToUse(topRoutes, sd) ==
    LET Compare(a, b) == GroupSizeCompare(a, b, topRoutes, sd)
    IN  ArraySort(topRoutes, Compare)

\* what one route adds to allMajorStops (diagram.js:671-688)
MajorStopsOf(route, stopId, rd, target) ==
    LET ByRanking(a, b) == Ranking(rd, b) - Ranking(rd, a)
        currentIndex == findStopIndex(route.stopSequence, stopId)
        forwardStops == SliceFrom(route.stopSequence, currentIndex - 1)
        forwardStopsRanked == ArraySort(forwardStops, ByRanking)
    IN  IF currentIndex = 0 THEN {}
        ELSE (IF Len(forwardStops) > 0 THEN {forwardStops[Len(forwardStops)]} ELSE {})
             \cup {forwardStopsRanked[i] : i \in 1..(IF target < Len(forwardStops)
                                                     THEN target ELSE Len(forwardStops))}

\* the state processRoutes sets for routesToUse (diagram.js:668-698)
MajorStops(routesToUse, stopId, rd, target) ==
    LET IsMajor(x) ==
            \/ x = stopId
            \/ \E r \in DOMAIN routesToUse : x \in MajorStopsOf(routesToUse[r], stopId, rd, target)
    IN  [routes |-> routesToUse,
         orderedStops |-> SelectSeq(getAllStopsFromRoutes(routesToUse, stopId), IsMajor)]

\* processRoutes up to the state it sets: [routes, orderedStops]
processRoutes(routesWithTripCounts, stopId, sd, rd, target, count) ==
    LET Kept(route) == ~isLastMajorStopInRoute(route, stopId, rd, target)
    IN  MajorStops(RoutesToUse(TopRoutes(SelectSeq(routesWithTripCounts, Kept), stopId, count),
                               sd),
                   stopId, rd, target)

\* RoutesWithTripCounts with the destination-ranking tie-break left out
RoutesWithTripCountsNoTieBreak(stopId, svc, rd, scheduleData) ==
    LET routesFound == findRoutesForStop(stopId, svc)
        withCounts == [i \in DOMAIN routesFound |->
                         [routeId |-> routesFound[i].routeId,
                          destinationStopId |-> routesFound[i].destinationStopId,
                          stopSequence |-> routesFound[i].stopSequence,
                          tripCount |-> calculateRouteTripCount(routesFound[i].routeId, svc,
                                                                scheduleData),
                          destinationRanking |-> Ranking(rd, routesFound[i].destinationStopId)]]
        ByTrips(a, b) == b.tripCount - a.tripCount
    IN  ArraySort(withCounts, ByTrips)

\* the routesWithTripCounts processRoutesData builds and sorts
RoutesWithTripCounts(stopId, svc, rd, scheduleData) ==
    LET routesFound == findRoutesForStop(stopId, svc)
        withCounts == [i \in DOMAIN routesFound |->
                         [routeId |-> routesFound[i].routeId,
                          destinationStopId |-> routesFound[i].destinationStopId,
                          stopSequence |-> routesFound[i].stopSequence,
                          tripCount |-> calculateRouteTripCount(routesFound[i].routeId, svc,
                                                                scheduleData),
                          destinationRanking |-> Ranking(rd, routesFound[i].destinationStopId)]]
        ByTrips(a, b) == IF a.tripCount # b.tripCount THEN b.tripCount - a.tripCount
                         ELSE b.destinationRanking - a.destinationRanking
    IN  ArraySort(withCounts, ByTrips)

----------------------------------------------------------------------------
(* One run of the pipeline on loaded data: processRoutesData, processRoutes *)
(* and the render effect's createStopPositionMap, for the stop in `hash`.  *)

SelectedStop == 1

\* a catalog entry with one destination
Entry(routeId, sequences) ==
    [routeId |-> routeId,
     dests |-> <<[destId |-> sequences[1][Len(sequences[1])], sequences |-> sequences]>>]

\* the stops of `line` a route serves, in line order, after the selected stop
RECURSIVE LineSeq(_, _)
LineSeq(served, line) ==
    IF line = <<>> THEN <<>>
    ELSE (IF line[1] \in served THEN <<line[1]>> ELSE <<>>) \o LineSeq(served, Tail(line))

SetCode(S) == SumSet({2 ^ x : x \in S})

NoMap == [x \in {} |-> 0]

\* the arrival page as it mounts (arrival.js:192-195), with live arrivals as in BLR
\* createVehicleTracker (fetchVehicles.js:221-226)
trackerIdle ==
    /\ intervalId = 0
    /\ intervals = {}
    /\ trackedServices = {}
    /\ routeIdCache = {}
    /\ startCalls = <<>>
    /\ stopped = FALSE

arrivalIdle ==
    /\ trackerIdle
    /\ busStop = 0
    /\ liveArrivalsEnabled = TRUE
    /\ fetchServicesStatus = "null"
    /\ services = "null"
    /\ fetching = <<>>
    /\ fetchRuns = 0

componentIdle ==
    /\ error = "none"
    /\ loading = TRUE
    /\ targetMajorStops = DEFAULT_TARGET_MAJOR_STOPS
    /\ countMajorRoutes = DEFAULT_COUNT_MAJOR_ROUTES
    /\ pending = <<>>
    /\ history = <<>>
    /\ labelData = <<>>
    /\ arrivalIdle

pipelineStart ==
    /\ hash = SelectedStop
    /\ currentStopId = 0
    /\ routes = <<>>
    /\ orderedStops = <<>>
    /\ input = <<>>
    /\ stopPosMap = NoMap
    /\ pc = "loaded"

\* processRoutesData up to the call of processRoutes
FindRoutes ==
    /\ pc = "loaded"
    /\ \E sched \in {NoSchedule, scheduleSource} :
          input' = RoutesWithTripCounts(hash, servicesData, rankingData, sched)
    /\ currentStopId' = hash
    /\ pc' = IF input' = <<>> THEN "noRoutes" ELSE "found"
    /\ UNCHANGED <<labelData, arrivalVars,
                   servicesData, stopsData, rankingData, scheduleSource, hash, routes,
                   orderedStops, error, loading, targetMajorStops, countMajorRoutes,
                   targetMajorStopsRef, countMajorRoutesRef, pending, stopPosMap, history>>

ProcessRoutes ==
    /\ pc = "found"
    /\ LET Take(res) == routes' = res.routes /\ orderedStops' = res.orderedStops
       IN  Take(processRoutes(input, currentStopId, stopsData, rankingData,
                              targetMajorStopsRef, countMajorRoutesRef))
    /\ pc' = "processed"
    /\ UNCHANGED <<labelData, arrivalVars,
                   servicesData, stopsData, rankingData, scheduleSource, hash, currentStopId,
                   error, loading, targetMajorStops, countMajorRoutes,
                   targetMajorStopsRef, countMajorRoutesRef, pending, input, stopPosMap, history>>

\* the render effect (diagram.js:802-856): skipped when routes or orderedStops is empty
Position ==
    /\ pc = "processed"
    /\ routes # <<>> /\ orderedStops # <<>>
    /\ stopPosMap' = createStopPositionMap(routes, orderedStops, currentStopId, stopsData)
    /\ pc' = "positioned"
    /\ UNCHANGED <<labelData, arrivalVars,
                   servicesData, stopsData, rankingData, scheduleSource, hash, currentStopId,
                   routes, orderedStops, error, loading, targetMajorStops, countMajorRoutes,
                   targetMajorStopsRef, countMajorRoutesRef, pending, input, history>>

NextPipeline == FindRoutes \/ ProcessRoutes \/ Position

\* Loaded data of a line network: nRoutes routes that each serve some (or none) of the nStops stops
\* after the selected stop, in line order; with dupName the last two stops share a name.
\* Routes are listed by ascending served set: the order of the catalog's entries.
InitLine(nRoutes, nStops, dupNames, target) ==
    LET line == [i \in 1..nStops |-> SelectedStop + i]
    IN  /\ \E served \in [1..nRoutes -> SUBSET Range(line)] :
              /\ \A r \in 1..(nRoutes - 1) : SetCode(served[r]) <= SetCode(served[r + 1])
              /\ servicesData = [r \in 1..nRoutes |->
                                    Entry(r, << <<SelectedStop>> \o LineSeq(served[r], line) >>)]
        /\ \E dupName \in dupNames :
              stopsData = [x \in {SelectedStop} \cup Range(line) |->
                              IF dupName /\ x = SelectedStop + nStops THEN x - 1 ELSE x]
        /\ rankingData = NoMap
        /\ scheduleSource = NoSchedule
        /\ targetMajorStopsRef = target
        /\ countMajorRoutesRef = DEFAULT_COUNT_MAJOR_ROUTES
        /\ componentIdle
        /\ pipelineStart

(* Layout runs on long lines: LayoutRoutes routes along LayoutStops stops, *)
(* the user having raised the major-stop bound so that every stop shows.   *)
LayoutRoutes == 2
LayoutStops == 7

InitLayout == InitLine(LayoutRoutes, LayoutStops, {FALSE}, LayoutStops + 1)

SpecLayout == InitLayout /\ [][NextPipeline]_vars

(* Runs on small networks: SelRoutes routes along SelStops stops, with and *)
(* without two stop ids of one name, default bounds.                       *)
SelRoutes == 3
SelStops == 3

InitSelect == InitLine(SelRoutes, SelStops, BOOLEAN, DEFAULT_TARGET_MAJOR_STOPS)

SpecSelect == InitSelect /\ [][NextPipeline]_vars

(* Runs on catalogs with sequence variants: CatRoutes routes, each with    *)
(* one destination and up to CatVariants variants, every variant serving   *)
(* some of the stops 1..CatStops in line order.                            *)
CatRoutes == 2
CatStops == 3
CatVariants == 2

CatLine == [i \in 1..CatStops |-> i]
CatSeqs == {LineSeq(served, CatLine) : served \in (SUBSET Range(CatLine)) \ {{}}}

InitCatalog ==
    /\ \E variants \in [1..CatRoutes -> UNION {[1..n -> CatSeqs] : n \in 1..CatVariants}] :
          servicesData = [r \in 1..CatRoutes |-> Entry(r, variants[r])]
    /\ stopsData = [x \in Range(CatLine) |-> x]
    /\ rankingData = NoMap
    /\ scheduleSource = NoSchedule
    /\ targetMajorStopsRef = DEFAULT_TARGET_MAJOR_STOPS
    /\ countMajorRoutesRef = DEFAULT_COUNT_MAJOR_ROUTES
    /\ componentIdle
    /\ pipelineStart

SpecCatalog == InitCatalog /\ [][NextPipeline]_vars

(* Runs on networks with shared trunks: GroupRoutes routes that all serve  *)
(* the first u <= GroupUniversal stops after the selected one and then     *)
(* each some of the next GroupTail stops, the major-stop bound either the  *)
(* default or raised so that every stop shows.                             *)
GroupRoutes == 3
GroupUniversal == 6
GroupTail == 1
GroupTargets == {DEFAULT_TARGET_MAJOR_STOPS, GroupUniversal + GroupTail + 1}

InitGroups ==
    /\ \E u \in 0..GroupUniversal :
          LET trunk == [i \in 1..u |-> SelectedStop + i]
              tail == [i \in 1..GroupTail |-> SelectedStop + u + i]
          IN  /\ \E served \in [1..GroupRoutes -> SUBSET Range(tail)] :
                    /\ \A r \in 1..(GroupRoutes - 1) :
                           SetCode(served[r]) <= SetCode(served[r + 1])
                    /\ servicesData =
                           [r \in 1..GroupRoutes |->
                               Entry(r, << <<SelectedStop>> \o trunk \o LineSeq(served[r], tail) >>)]
              /\ stopsData = [x \in {SelectedStop} \cup Range(trunk) \cup Range(tail) |-> x]
    /\ rankingData = NoMap
    /\ scheduleSource = NoSchedule
    /\ targetMajorStopsRef \in GroupTargets
    /\ countMajorRoutesRef = DEFAULT_COUNT_MAJOR_ROUTES
    /\ componentIdle
    /\ pipelineStart

SpecGroups == InitGroups /\ [][NextPipeline]_vars

(* Runs on networks whose routes visit the stops in any order: OrdRoutes    *)
(* routes, each a sequence without repetition over OrdStops stops, the     *)
(* selected stop anywhere on it or absent.                                 *)
OrdRoutes == 2
OrdStops == 3

OrdSeqs == {q \in UNION {[1..n -> 1..OrdStops] : n \in 1..OrdStops} :
               \A i, j \in DOMAIN q : i # j => q[i] # q[j]}

InitOrder ==
    /\ \E seqs \in [1..OrdRoutes -> OrdSeqs] :
          servicesData = [r \in 1..OrdRoutes |-> Entry(r, <<seqs[r]>>)]
    /\ stopsData = [x \in 1..OrdStops |-> x]
    /\ rankingData = NoMap
    /\ scheduleSource = NoSchedule
    /\ targetMajorStopsRef = DEFAULT_TARGET_MAJOR_STOPS
    /\ countMajorRoutesRef = DEFAULT_COUNT_MAJOR_ROUTES
    /\ componentIdle
    /\ pipelineStart

SpecOrder == InitOrder /\ [][NextPipeline]_vars

(* The label layout of the render effect (diagram.js:858-879, 1056-1137), *)
(* which follows createStopPositionMap in the same effect run.             *)
ROUTE_LABEL_WIDTH == 80
LABEL_ROTATION == -20
MAX_DRIFT_PERCENT == 15
ROUTE_HEIGHT == 96
ROUTE_START_Y == 100
MARKER_RADIUS == 8
BASE_VERTICAL_OFFSET == 18
VERTICAL_SCALE_FACTOR == Rat(16, 10)

\* Math.cos(ROTATION_RAD) for the rotation of 20 degrees, to two decimals
CosRotation == Rat(94, 100)

\* Math.abs(Math.sin(ROTATION_RAD)), to two decimals
SinRotation == Rat(34, 100)

\* clientWidth of the diagram container, and name.length of a stop name
ContainerWidths == {360, 1200}

\* the x distance under which two labels stack, and the y distance the vertical pass makes
StackTolerance == 5
verticalSpacing == 1
LabelLengths == {4, 40}

\* stopPosMap[stopId] || { position: 50 }
PositionOf(spm, stopId) == IF stopId \in DOMAIN spm THEN spm[stopId] ELSE R(50)

\* the pushes to namePositions, in the order the loop over routes makes them
NamePushes(rts, os, cur, sd, spm) ==
    LET pushes[r \in 0..Len(rts)] ==
            IF r = 0 THEN <<>>
            ELSE LET routeStopsInOrder == RouteStops(rts[r], os, cur)
                 IN  pushes[r - 1] \o
                     [i \in DOMAIN routeStopsInOrder |->
                         [name |-> getStopName(routeStopsInOrder[i], sd),
                          routeIndex |-> r - 1,
                          position |-> PositionOf(spm, routeStopsInOrder[i])]]
    IN  pushes[Len(rts)]

\* buildSegments: the positions sorted by route index and cut where the next route index is
\* not the previous one plus 1; a segment is <<segStart, prev>>
buildSegments(positions) ==
    LET ByRoute(a, b) == a.routeIndex - b.routeIndex
        sorted == ArraySort(positions, ByRoute)
        IsStart(i) == i = 1 \/ sorted[i].routeIndex # sorted[i - 1].routeIndex + 1
        IsEnd(i) == i = Len(sorted) \/ IsStart(i + 1)
        EndOf(i) == CHOOSE j \in i..Len(sorted) :
                        IsEnd(j) /\ \A k \in i..(j - 1) : ~IsEnd(k)
        segments[i \in 0..Len(sorted)] ==
            IF i = 0 THEN <<>>
            ELSE IF IsStart(i) THEN Append(segments[i - 1], <<sorted[i], sorted[EndOf(i)]>>)
            ELSE segments[i - 1]
    IN  segments[Len(sorted)]

\* labelY of a label whose marker is on row topRouteIndex, for a text of textLength characters
LabelY(topRouteIndex, textLength) ==
    RSub(R(ROUTE_START_Y + topRouteIndex * ROUTE_HEIGHT - MARKER_RADIUS),
         RAdd(R(BASE_VERTICAL_OFFSET),
              RMul(RMul(R(textLength), VERTICAL_SCALE_FACTOR), SinRotation)))

\* labelData before the overlap resolution, sorted by x; segmentStart of a label that is
\* not common is undefined, modelled by -1
BuildLabels(pushes, lengths) ==
    LET names == Dedup([i \in DOMAIN pushes |-> pushes[i].name])
        LabelsOf(name) ==
            LET Mine(e) == e.name = name
                positions == SelectSeq(pushes, Mine)
                segments == buildSegments(positions)
            IN  IF Len(positions) > 1
                THEN [k \in DOMAIN segments |->
                         [text |-> name, x |-> segments[k][1].position,
                          originalX |-> segments[k][1].position,
                          y |-> LabelY(segments[k][1].routeIndex, lengths[name]),
                          isCommon |-> TRUE,
                          segmentStart |-> segments[k][1].routeIndex,
                          segmentEnd |-> segments[k][2].routeIndex]]
                ELSE [k \in DOMAIN positions |->
                         [text |-> name, x |-> positions[k].position,
                          originalX |-> positions[k].position,
                          y |-> LabelY(positions[k].routeIndex, lengths[name]),
                          isCommon |-> FALSE, segmentStart |-> -1, segmentEnd |-> -1]]
        all[n \in 0..Len(names)] ==
            IF n = 0 THEN <<>> ELSE all[n - 1] \o LabelsOf(names[n])
        ByX(a, b) == IF RLt(a.x, b.x) THEN -1 ELSE IF a.x = b.x THEN 0 ELSE 1
    IN  ArraySort(all[Len(names)], ByX)

xScale(percent, diagramWidth) ==
    RAdd(R(ROUTE_LABEL_WIDTH), RMul(RDiv(percent, R(100)), R(diagramWidth)))

\* getHorizontalProjection(estimateWidth(text)) for a text of textLength characters
LabelWidth(textLength) == RMul(R(textLength * 6 + 24), CosRotation)

\* the new x of the label `next` that follows `current`, without the drift bound
ProposedX(current, next, lengths, diagramWidth) ==
    LET currentRight == RAdd(xScale(current.x, diagramWidth),
                             RDiv(LabelWidth(lengths[current.text]), R(2)))
        nextLeft == RSub(xScale(next.x, diagramWidth),
                         RDiv(LabelWidth(lengths[next.text]), R(2)))
        minSpacing == 1
        overlap == RSub(RAdd(currentRight, R(minSpacing)), nextLeft)
    IN  IF RLt(nextLeft, RAdd(currentRight, R(minSpacing)))
        THEN RAdd(next.x, RMul(RDiv(overlap, R(diagramWidth)), R(100)))
        ELSE next.x

\* the overlap step with next.x = proposedX
PushLabelUnbounded(current, next, lengths, diagramWidth) ==
    [next EXCEPT !.x = ProposedX(current, next, lengths, diagramWidth)]

\* one pass of the loop that resolves label overlaps (diagram.js:1117-1137)
PushLabel(current, next, lengths, diagramWidth) ==
    LET proposedX == ProposedX(current, next, lengths, diagramWidth)
        maxX == RMin(RAdd(next.originalX, R(MAX_DRIFT_PERCENT)), R(100))
        minX == RMax(RSub(next.originalX, R(MAX_DRIFT_PERCENT)), R(0))
    IN  IF proposedX = next.x THEN next
        ELSE [next EXCEPT !.x = RMin(maxX, RMax(minX, proposedX))]

ResolveLabels(labels, lengths, diagramWidth) ==
    LET resolved[i \in 1..MaxInt(Len(labels), 1)] ==
            IF i = 1 THEN labels
            ELSE LET prev == resolved[i - 1]
                 IN  [prev EXCEPT
                         ![i] = PushLabel(prev[i - 1], prev[i], lengths, diagramWidth)]
    IN  IF labels = <<>> THEN <<>> ELSE resolved[Len(labels)]

\* markerPositionsMap (diagram.js:1156-1198) as the map key -> percentage; the key of a name
\* that is not common is <<name, -1>>, the key `${stopName}-${start.routeIndex}` of a segment
\* is <<stopName, start.routeIndex>>
MarkerPositionsMap(pushes) ==
    LET Count(name) == Cardinality({i \in DOMAIN pushes : pushes[i].name = name})
        single[i \in 0..Len(pushes)] ==
            IF i = 0 THEN <<>>
            ELSE LET prev == single[i - 1]
                     key == <<pushes[i].name, -1>>
                 IN  IF Count(pushes[i].name) > 1 \/ MapHas(prev, key) THEN prev
                     ELSE MapSet(prev, key, pushes[i].position)
        names == Dedup([i \in DOMAIN pushes |-> pushes[i].name])
        IsCommon(name) == Count(name) > 1
        commonNames == SelectSeq(names, IsCommon)
        SetSegments(m, name) ==
            LET Mine(e) == e.name = name
                segments == buildSegments(SelectSeq(pushes, Mine))
                put[k \in 0..Len(segments)] ==
                    IF k = 0 THEN m
                    ELSE MapSet(put[k - 1], <<name, segments[k][1].routeIndex>>,
                                segments[k][1].position)
            IN  put[Len(segments)]
        merged[n \in 0..Len(commonNames)] ==
            IF n = 0 THEN single[Len(pushes)] ELSE SetSegments(merged[n - 1], commonNames[n])
    IN  merged[Len(commonNames)]

\* markerKey of a label (diagram.js:1203-1206)
MarkerKey(label) ==
    IF label.isCommon /\ label.segmentStart # -1 THEN <<label.text, label.segmentStart>>
    ELSE <<label.text, -1>>

\* the comparator of the sort before the vertical pass (diagram.js:1139-1142)
StackCompare(a, b) ==
    LET Sign(d) == IF RLt(d, R(0)) THEN -1 ELSE IF d = R(0) THEN 0 ELSE 1
    IN  IF RLt(RAbs(RSub(a.x, b.x)), R(StackTolerance))
        THEN Sign(RSub(a.y, b.y)) ELSE Sign(RSub(a.x, b.x))

\* one pass of the loop that resolves vertical overlaps (diagram.js:1145-1152)
LowerLabel(current, next) ==
    IF /\ RLt(RAbs(RSub(current.x, next.x)), R(StackTolerance))
       /\ RLt(RAbs(RSub(current.y, next.y)), R(verticalSpacing))
    THEN [next EXCEPT !.y = RMax(next.y, RAdd(current.y, R(verticalSpacing)))]
    ELSE next

\* the sort by StackCompare, the vertical pass and the final sort by x
ResolveVertical(labels) ==
    LET stacked == ArraySort(labels, StackCompare)
        lowered[i \in 1..MaxInt(Len(stacked), 1)] ==
            IF i = 1 THEN stacked
            ELSE LET prev == lowered[i - 1]
                 IN  [prev EXCEPT ![i] = LowerLabel(prev[i - 1], prev[i])]
        ByX(a, b) == IF RLt(a.x, b.x) THEN -1 ELSE IF a.x = b.x THEN 0 ELSE 1
    IN  IF labels = <<>> THEN <<>> ELSE ArraySort(lowered[Len(stacked)], ByX)

\* the label part of the render effect, for the container width and the name lengths at hand
DrawLabels ==
    /\ pc = "positioned"
    /\ \E containerWidth \in ContainerWidths :
       \E lengths \in [{getStopName(x, stopsData) : x \in DOMAIN stopPosMap} -> LabelLengths] :
          labelData' =
              ResolveVertical(
                  ResolveLabels(BuildLabels(NamePushes(routes, orderedStops, currentStopId,
                                                       stopsData, stopPosMap), lengths),
                                lengths, containerWidth - ROUTE_LABEL_WIDTH))
    /\ pc' = "drawn"
    /\ UNCHANGED <<arrivalVars, servicesData, stopsData, rankingData, scheduleSource, hash,
                   currentStopId, routes, orderedStops, error, loading, targetMajorStops,
                   countMajorRoutes, targetMajorStopsRef, countMajorRoutesRef, pending, input,
                   stopPosMap, history>>

NextDraw == NextPipeline \/ DrawLabels

(* Runs of the whole render effect on the small networks of InitSelect.    *)
SpecLabels == InitSelect /\ [][NextDraw]_vars

(* Runs of the whole render effect on two routes with a long shared trunk: *)
(* both serve the StackTrunk stops after the selected one, and each goes   *)
(* on alone for up to StackTail stops of its own; the major-stop bound is  *)
(* raised so that every stop shows.                                        *)
StackTrunk == 6
StackTail == 2

InitStack ==
    /\ \E t \in [1..2 -> 0..StackTail] :
          LET trunk == [i \in 1..StackTrunk |-> SelectedStop + i]
              own(r) == [i \in 1..t[r] |-> SelectedStop + StackTrunk + (r - 1) * StackTail + i]
          IN  /\ servicesData =
                     [r \in 1..2 |-> Entry(r, << <<SelectedStop>> \o trunk \o own(r) >>)]
              /\ stopsData = [x \in {SelectedStop} \cup Range(trunk)
                                        \cup Range(own(1)) \cup Range(own(2)) |-> x]
    /\ rankingData = NoMap
    /\ scheduleSource = NoSchedule
    /\ targetMajorStopsRef = 1 + StackTrunk + 2 * StackTail
    /\ countMajorRoutesRef = DEFAULT_COUNT_MAJOR_ROUTES
    /\ componentIdle
    /\ pipelineStart

SpecStack == InitStack /\ [][NextDraw]_vars

(* Runs on ranked networks: RankRoutes routes along RankStops stops, every  *)
(* stop after the selected one with a ranking of RankValues, a schedule    *)
(* that reports RankTrips(r) trips for route r (so that routes tie), and   *)
(* the bounds at their defaults or lowered by the user.                    *)
RankRoutes == 3
RankStops == 3
RankValues == {0, 1, 6}
RankTargets == {1, DEFAULT_TARGET_MAJOR_STOPS}
RankCounts == {2, DEFAULT_COUNT_MAJOR_ROUTES}
RankTrips(r) == (r + 1) \div 2

InitRanked ==
    LET line == [i \in 1..RankStops |-> SelectedStop + i]
    IN  /\ \E served \in [1..RankRoutes -> SUBSET Range(line)] :
              /\ \A r \in 1..(RankRoutes - 1) : SetCode(served[r]) <= SetCode(served[r + 1])
              /\ servicesData = [r \in 1..RankRoutes |->
                                    Entry(r, << <<SelectedStop>> \o LineSeq(served[r], line) >>)]
        /\ stopsData = [x \in {SelectedStop} \cup Range(line) |-> x]
        /\ rankingData \in [Range(line) -> RankValues]
        /\ scheduleSource = [present |-> TRUE,
                             services |-> [r \in 1..RankRoutes |->
                                              [no |-> r, trip_count |-> RankTrips(r)]]]
        /\ targetMajorStopsRef \in RankTargets
        /\ countMajorRoutesRef \in RankCounts
        /\ componentIdle
        /\ pipelineStart

SpecRanked == InitRanked /\ [][NextPipeline]_vars

----------------------------------------------------------------------------
(* The BusDiagram component.  It mounts with the data load pending; once   *)
(* the data is there every hash change runs handleHashChange, which starts *)
(* a schedule fetch whose completion runs processRoutesData.  A state      *)
(* change re-renders the component and runs the effects whose dependencies *)
(* changed, as part of the step that made the change.                      *)

MAX_TARGET_MAJOR_STOPS == 50
MAX_COUNT_MAJOR_ROUTES == 100

NavStops == 4        \* the stop directory holds the ids 1..NavStops
MaxRequests == 4     \* schedule fetches started in one behaviour

\* what location.hash can name: 0 is the empty hash, NavStops + 1 an id not in the directory
Hashes == 0..(NavStops + 1)

\* what the user can type into a number input (0: no number or a number below 1)
TargetInputs == {0, 1, MAX_TARGET_MAJOR_STOPS + 1}
CountInputs == {0, 1, MAX_COUNT_MAJOR_ROUTES + 1}

\* which of the early returns of BusDiagram's render is taken
View(l, e, rts, os) ==
    IF l THEN "loading"
    ELSE IF e # "none" THEN "error"
    ELSE IF rts = <<>> \/ os = <<>> THEN "noData"
    ELSE "diagram"

\* handleHashChange with setCurrentStopId ahead of the stop directory lookup
handleHashChangeStopFirst(h, cur, pend, sd) ==
    IF h = 0
    THEN [error |-> "noStopId", loading |-> FALSE, currentStopId |-> cur, pending |-> pend]
    ELSE IF h \notin DOMAIN sd
    THEN [error |-> "notFound", loading |-> FALSE, currentStopId |-> h, pending |-> pend]
    ELSE [error |-> "none", loading |-> TRUE, currentStopId |-> h,
          pending |-> Append(pend, [stopId |-> h])]

\* handleHashChange without setLoading(false) ahead of its two early returns
handleHashChangeKeepsLoading(h, cur, pend, sd) ==
    IF h = 0
    THEN [error |-> "noStopId", loading |-> TRUE, currentStopId |-> cur, pending |-> pend]
    ELSE IF h \notin DOMAIN sd
    THEN [error |-> "notFound", loading |-> TRUE, currentStopId |-> cur, pending |-> pend]
    ELSE [error |-> "none", loading |-> TRUE, currentStopId |-> h,
          pending |-> Append(pend, [stopId |-> h])]

\* handleHashChange for location.hash = h: the state it leaves and the fetch it starts
handleHashChange(h, cur, pend, sd) ==
    IF h = 0
    THEN [error |-> "noStopId", loading |-> FALSE, currentStopId |-> cur, pending |-> pend]
    ELSE IF h \notin DOMAIN sd
    THEN [error |-> "notFound", loading |-> FALSE, currentStopId |-> cur, pending |-> pend]
    ELSE [error |-> "none", loading |-> TRUE, currentStopId |-> h,
          pending |-> Append(pend, [stopId |-> h])]

\* the recompute effect with loading among its dependencies: the handler's own
\* setLoading(true) makes it run again
RecomputeEffectLoadingDep(h, prevCur, boundsOrDataChanged, r, sd) ==
    IF (boundsOrDataChanged \/ r.currentStopId # prevCur \/ r.loading) /\ r.currentStopId # 0
    THEN handleHashChange(h, r.currentStopId, r.pending, sd)
    ELSE r

\* the effect on [targetMajorStops, countMajorRoutes, servicesData, currentStopId], run after
\* the render that follows state r: it calls window.onhashchange when a dependency changed
RecomputeEffect(h, prevCur, boundsOrDataChanged, r, sd) ==
    IF (boundsOrDataChanged \/ r.currentStopId # prevCur) /\ r.currentStopId # 0
    THEN handleHashChange(h, r.currentStopId, r.pending, sd)
    ELSE r

Started(pend) == Len(history) + Len(pend)

\* the component takes state r; the loading or error view replaces the diagram
TakeHandlerState(r) ==
    /\ Started(r.pending) <= MaxRequests
    /\ currentStopId' = r.currentStopId
    /\ error' = r.error
    /\ loading' = r.loading
    /\ pending' = r.pending
    /\ stopPosMap' = NoMap

\* the three data files arrive: the handler is installed and run, then the effect
DataLoaded ==
    /\ pc = "mounted"
    /\ pc' = "ready"
    /\ TakeHandlerState(RecomputeEffect(hash, currentStopId, TRUE,
                            handleHashChange(hash, currentStopId, pending, stopsData),
                            stopsData))
    /\ UNCHANGED <<labelData, arrivalVars,
                   servicesData, stopsData, rankingData, scheduleSource, hash, routes,
                   orderedStops, targetMajorStops, countMajorRoutes, targetMajorStopsRef,
                   countMajorRoutesRef, input, history>>

\* the data load fails
DataLoadFailed ==
    /\ pc = "mounted"
    /\ pc' = "failed"
    /\ error' = "loadFailed"
    /\ loading' = FALSE
    /\ UNCHANGED <<labelData, arrivalVars,
                   servicesData, stopsData, rankingData, scheduleSource, hash, currentStopId,
                   routes, orderedStops, targetMajorStops, countMajorRoutes,
                   targetMajorStopsRef, countMajorRoutesRef, pending, input, stopPosMap,
                   history>>

\* the user changes the hash to h; window.onhashchange is set once the data is loaded
Navigate(h) ==
    /\ h # hash
    /\ hash' = h
    /\ IF pc = "ready"
       THEN TakeHandlerState(RecomputeEffect(h, currentStopId, FALSE,
                                handleHashChange(h, currentStopId, pending, stopsData),
                                stopsData))
       ELSE UNCHANGED <<currentStopId, error, loading, pending, stopPosMap>>
    /\ UNCHANGED <<labelData, arrivalVars,
                   servicesData, stopsData, rankingData, scheduleSource, routes,
                   orderedStops, targetMajorStops, countMajorRoutes, targetMajorStopsRef,
                   countMajorRoutesRef, input, pc, history>>


\* SetBounds without the effect that copies the state into the refs (diagram.js:629-632)
SetBoundsStaleRefs(t, c) ==
    /\ pc = "ready"
    /\ View(loading, error, routes, orderedStops) = "diagram"
    /\ <<t, c>> # <<targetMajorStops, countMajorRoutes>>
    /\ targetMajorStops' = t
    /\ countMajorRoutes' = c
    /\ TakeHandlerState(RecomputeEffect(hash, currentStopId, TRUE,
                            [error |-> error, loading |-> loading,
                             currentStopId |-> currentStopId, pending |-> pending],
                            stopsData))
    /\ UNCHANGED <<labelData, arrivalVars,
                   servicesData, stopsData, rankingData, scheduleSource, hash, routes,
                   orderedStops, input, pc, history, targetMajorStopsRef,
                   countMajorRoutesRef>>

\* setTargetMajorStops(t) or setCountMajorRoutes(c) from the controls of the diagram view:
\* the re-render copies both into the refs, then the recompute effect runs
SetBounds(t, c) ==
    /\ pc = "ready"
    /\ View(loading, error, routes, orderedStops) = "diagram"
    /\ <<t, c>> # <<targetMajorStops, countMajorRoutes>>
    /\ targetMajorStops' = t
    /\ countMajorRoutes' = c
    /\ targetMajorStopsRef' = t
    /\ countMajorRoutesRef' = c
    /\ TakeHandlerState(RecomputeEffect(hash, currentStopId, TRUE,
                            [error |-> error, loading |-> loading,
                             currentStopId |-> currentStopId, pending |-> pending],
                            stopsData))
    /\ UNCHANGED <<labelData, arrivalVars,
                   servicesData, stopsData, rankingData, scheduleSource, hash, routes,
                   orderedStops, input, pc, history>>

\* onChange of "Number of Routes": a number in 1..100 is taken
ChangeCountMajorRoutes(value) ==
    /\ value > 0 /\ value <= MAX_COUNT_MAJOR_ROUTES
    /\ SetBounds(targetMajorStops, value)

\* onBlur of "Number of Routes": no number or one below 1 resets, one above 100 is capped
BlurCountMajorRoutes(value) ==
    /\ value < 1 \/ value > MAX_COUNT_MAJOR_ROUTES
    /\ SetBounds(targetMajorStops,
                 IF value < 1 THEN DEFAULT_COUNT_MAJOR_ROUTES ELSE MAX_COUNT_MAJOR_ROUTES)

\* onChange of "Number of Major Stops": a number in 1..50 is taken
ChangeTargetMajorStops(value) ==
    /\ value > 0 /\ value <= MAX_TARGET_MAJOR_STOPS
    /\ SetBounds(value, countMajorRoutes)

\* onBlur of "Number of Major Stops"
BlurTargetMajorStops(value) ==
    /\ value < 1 \/ value > MAX_TARGET_MAJOR_STOPS
    /\ SetBounds(IF value < 1 THEN DEFAULT_TARGET_MAJOR_STOPS ELSE MAX_TARGET_MAJOR_STOPS,
                 countMajorRoutes)

RemoveAt(s, i) == SubSeq(s, 1, i - 1) \o SubSeq(s, i + 1, Len(s))

ScheduleData(ok) == IF ok THEN scheduleSource ELSE NoSchedule

\* RoutesData with an early return that sets no error (diagram.js:749-755)
RoutesDataSilentReturn(routesWithTripCounts, stopId, sd, rd, target, count, st) ==
    IF routesWithTripCounts = <<>>
    THEN [found |-> FALSE, error |-> st.error, routes |-> st.routes,
          orderedStops |-> st.orderedStops]
    ELSE [found |-> TRUE, error |-> st.error] @@
         processRoutes(routesWithTripCounts, stopId, sd, rd, target, count)

\* processRoutesData for the routes found: what it writes over st = [error, routes,
\* orderedStops]
RoutesData(routesWithTripCounts, stopId, sd, rd, target, count, st) ==
    IF routesWithTripCounts = <<>>
    THEN [found |-> FALSE, error |-> "noRoutes", routes |-> st.routes,
          orderedStops |-> st.orderedStops]
    ELSE [found |-> TRUE, error |-> st.error] @@
         processRoutes(routesWithTripCounts, stopId, sd, rd, target, count)

\* the render that follows processRoutesData, with what it draws logged
Settle(i, ok, r) ==
    /\ pc = "ready"
    /\ pending' = RemoveAt(pending, i)
    /\ loading' = FALSE
    /\ error' = r.error
    /\ routes' = r.routes
    /\ orderedStops' = r.orderedStops
    /\ stopPosMap' = IF View(FALSE, r.error, r.routes, r.orderedStops) = "diagram"
                     THEN createStopPositionMap(r.routes, r.orderedStops, currentStopId,
                                                stopsData)
                     ELSE NoMap
    /\ history' = Append(history,
                         [stopId |-> pending[i].stopId, ok |-> ok, shownFor |-> currentStopId,
                          target |-> targetMajorStopsRef, count |-> countMajorRoutesRef,
                          drawn |-> r.found /\ stopPosMap' # NoMap,
                          routes |-> r.routes, orderedStops |-> r.orderedStops,
                          positions |-> stopPosMap'])
    /\ UNCHANGED <<labelData, arrivalVars,
                   servicesData, stopsData, rankingData, scheduleSource, hash,
                   currentStopId, targetMajorStops, countMajorRoutes,
                   targetMajorStopsRef, countMajorRoutesRef, input, pc>>

\* the schedule fetch of request pending[i] settles (ok: resolved, ~ok: rejected) and
\* processRoutesData runs with the stop id its handler captured
FetchDone(i, ok) ==
    Settle(i, ok,
           RoutesData(RoutesWithTripCounts(pending[i].stopId, servicesData, rankingData,
                                           ScheduleData(ok)),
                      pending[i].stopId, stopsData, rankingData,
                      targetMajorStopsRef, countMajorRoutesRef,
                      [error |-> error, routes |-> routes, orderedStops |-> orderedStops]))

Next ==
    \/ DataLoaded
    \/ DataLoadFailed
    \/ \E h \in Hashes : Navigate(h)
    \/ \E value \in CountInputs : ChangeCountMajorRoutes(value)
    \/ \E value \in CountInputs : BlurCountMajorRoutes(value)
    \/ \E value \in TargetInputs : ChangeTargetMajorStops(value)
    \/ \E value \in TargetInputs : BlurTargetMajorStops(value)
    \/ \E i \in DOMAIN pending, ok \in BOOLEAN : FetchDone(i, ok)

\* the data the page loads: route 1 serves the stops 1..NavStops-1 in order, route 2 the
\* first and the last of them; stop NavStops is in the directory and on no route; the
\* schedule reports more trips for route 2
Init ==
    /\ servicesData = <<Entry(1, << [i \in 1..(NavStops - 1) |-> i] >>),
                        Entry(2, << <<1, NavStops - 1>> >>)>>
    /\ stopsData = [x \in 1..NavStops |-> x]
    /\ rankingData = NoMap
    /\ scheduleSource = [present |-> TRUE, services |-> <<[no |-> 2, trip_count |-> NavStops]>>]
    /\ hash \in Hashes
    /\ currentStopId = 0
    /\ routes = <<>>
    /\ orderedStops = <<>>
    /\ targetMajorStopsRef = DEFAULT_TARGET_MAJOR_STOPS
    /\ countMajorRoutesRef = DEFAULT_COUNT_MAJOR_ROUTES
    /\ componentIdle
    /\ input = <<>>
    /\ stopPosMap = NoMap
    /\ pc = "mounted"

Spec == Init /\ [][Next]_vars

\* the Promise.all of the three data files resolves or rejects
DataSettles == DataLoaded \/ DataLoadFailed

\* the component when the data load does not stay unsettled forever
SpecSettling == Init /\ [][Next]_vars /\ WF_vars(DataSettles)

\* every schedule fetch that was started settles: from some point on none is in flight
\* (a behaviour starts at most MaxRequests of them)
FetchesSettle == <>[](pending = <<>>)

----------------------------------------------------------------------------
(* The arrival page (arrival.js:192-380): a hash change to a known stop    *)
(* code sets busStop, whose effect runs fetchServices; a run asks the live *)
(* API, falls back to the static schedule, and schedules its own retry.    *)

ArrStops == 2         \* the stop directory holds the codes 1..ArrStops
MaxFetchRuns == 4     \* fetchServices runs in one behaviour

diagramVars == <<servicesData, stopsData, rankingData, scheduleSource, currentStopId, routes,
                 orderedStops, error, loading, targetMajorStops, countMajorRoutes,
                 targetMajorStopsRef, countMajorRoutesRef, pending, input, stopPosMap, pc,
                 history, labelData, trackerVars>>

\* what location.hash can name: 0 is the empty hash, ArrStops + 1 a code not in the directory
ArrivalHashes == 0..(ArrStops + 1)

\* how the schedule fetch of fetchScheduleFallback ends: with upcoming trips, with none, rejected
ScheduleOutcomes == {"trips", "noTrips", "rejected"}

\* fetchServices(id) (arrival.js:352-374), run by the busStop effect or by a retry timer:
\* the status it sets and the live request it starts.  arrivalsTimeout and arrivalsRAF are
\* variables of one render; own tells whether the run writes those that the cleanup of the
\* effect now in place reads
fetchServices(id, inFlight, own) ==
    [status |-> "loading",
     fetching |-> IF liveArrivalsEnabled
                  THEN Append(inFlight, [id |-> id, stage |-> "live", current |-> own])
                  ELSE inFlight]

\* the cleanup of the busStop effect: it clears the retry timer of the run it started;
\* requests under way go on
effectCleanup(inFlight) ==
    LET Kept(f) == ~(f.current /\ f.stage = "retry")
        kept == SelectSeq(inFlight, Kept)
    IN  [i \in DOMAIN kept |-> [kept[i] EXCEPT !.current = FALSE]]

\* window.onhashchange (arrival.js:225-240) and the busStop effect (arrival.js:376-382)
ArrivalHashChange(code) ==
    /\ pc = "arrival"
    /\ code # hash
    /\ hash' = code
    /\ IF code \in 1..ArrStops
       THEN /\ fetchRuns < MaxFetchRuns
            /\ busStop' = code
            /\ LET Take(r) == fetchServicesStatus' = r.status /\ fetching' = r.fetching
               IN  Take(fetchServices(code, effectCleanup(fetching), TRUE))
            /\ fetchRuns' = fetchRuns + 1
            /\ UNCHANGED services
       ELSE IF code = 0 /\ busStop # 0
       THEN /\ busStop' = 0
            /\ fetching' = effectCleanup(fetching)
            /\ UNCHANGED <<fetchServicesStatus, services, fetchRuns>>
       ELSE UNCHANGED <<busStop, fetchServicesStatus, services, fetching, fetchRuns>>
    /\ UNCHANGED <<diagramVars, liveArrivalsEnabled>>

\* fetchLiveArrivalData settles: with services (ok), or with null after an API error, an
\* empty answer or a rejected fetch; then the .then / .catch of fetchServices
LiveSettles(i, ok) ==
    /\ pc = "arrival"
    /\ fetching[i].stage = "live"
    /\ IF ok
       THEN /\ fetchServicesStatus' = "online"
            /\ services' = "live"
            /\ fetching' = [fetching EXCEPT ![i].stage = "retry"]
       ELSE /\ fetching' = [fetching EXCEPT ![i].stage = "schedule"]
            /\ UNCHANGED <<fetchServicesStatus, services>>
    /\ UNCHANGED <<diagramVars, hash, busStop, liveArrivalsEnabled, fetchRuns>>

\* the fetchCache of fetchScheduleFallback settles (arrival.js:336-350)
ScheduleSettles(i, outcome) ==
    /\ pc = "arrival"
    /\ fetching[i].stage = "schedule"
    /\ fetchServicesStatus' = IF outcome = "trips" THEN "static" ELSE "error"
    /\ services' = IF outcome = "trips" THEN "static" ELSE "empty"
    /\ fetching' = [fetching EXCEPT ![i].stage = "retry"]
    /\ UNCHANGED <<diagramVars, hash, busStop, liveArrivalsEnabled, fetchRuns>>

\* the timer of scheduleRetry fires and runs fetchServices again (arrival.js:329-334)
RetryFires(i) ==
    /\ pc = "arrival"
    /\ fetching[i].stage = "retry"
    /\ fetchRuns < MaxFetchRuns
    /\ LET Take(r) == fetchServicesStatus' = r.status /\ fetching' = r.fetching
       IN  Take(fetchServices(fetching[i].id, RemoveAt(fetching, i), fetching[i].current))
    /\ fetchRuns' = fetchRuns + 1
    /\ UNCHANGED <<diagramVars, hash, busStop, liveArrivalsEnabled, services>>

RequestSettles ==
    \E i \in DOMAIN fetching :
        \/ \E ok \in BOOLEAN : LiveSettles(i, ok)
        \/ \E outcome \in ScheduleOutcomes : ScheduleSettles(i, outcome)

NextArrival ==
    \/ \E code \in ArrivalHashes : ArrivalHashChange(code)
    \/ RequestSettles
    \/ \E i \in DOMAIN fetching : RetryFires(i)

\* the arrival page with its data loaded and an empty hash, for a city with or without
\* live arrivals (city-config.js)
InitArrival ==
    /\ servicesData = <<>>
    /\ stopsData = [x \in 1..ArrStops |-> x]
    /\ rankingData = NoMap
    /\ scheduleSource = NoSchedule
    /\ hash = 0
    /\ currentStopId = 0
    /\ routes = <<>>
    /\ orderedStops = <<>>
    /\ error = "none"
    /\ loading = TRUE
    /\ targetMajorStops = DEFAULT_TARGET_MAJOR_STOPS
    /\ countMajorRoutes = DEFAULT_COUNT_MAJOR_ROUTES
    /\ targetMajorStopsRef = DEFAULT_TARGET_MAJOR_STOPS
    /\ countMajorRoutesRef = DEFAULT_COUNT_MAJOR_ROUTES
    /\ pending = <<>>
    /\ input = <<>>
    /\ stopPosMap = NoMap
    /\ pc = "arrival"
    /\ history = <<>>
    /\ labelData = <<>>
    /\ busStop = 0
    /\ liveArrivalsEnabled \in BOOLEAN
    /\ fetchServicesStatus = "null"
    /\ services = "null"
    /\ fetching = <<>>
    /\ fetchRuns = 0
    /\ trackerIdle

\* a request to the network settles: the fetch resolves or rejects
SpecArrival == InitArrival /\ [][NextArrival]_vars /\ WF_vars(RequestSettles)

----------------------------------------------------------------------------
(* The vehicle tracker (fetchVehicles.js:215-466) of a city with live      *)
(* vehicle tracking.  startServices awaits the route ids of its services   *)
(* and then the first updatePositions; stop and further startServices      *)
(* calls can run at either await.                                          *)

TrackServices == 2      \* the service numbers are 1..TrackServices
MaxIntervals == 3       \* the handles setRafInterval hands out are 1..MaxIntervals
MaxStartCalls == 2      \* startServices calls at an await at one time

\* the state outside the tracker
pageVars == <<servicesData, stopsData, rankingData, scheduleSource, hash, currentStopId,
              routes, orderedStops, error, loading, targetMajorStops, countMajorRoutes,
              targetMajorStopsRef, countMajorRoutesRef, pending, input, stopPosMap, pc,
              history, labelData, busStop, liveArrivalsEnabled, fetchServicesStatus,
              services, fetching, fetchRuns>>

\* getStatus (fetchVehicles.js:422-428)
getStatus == [isTracking |-> intervalId # 0, serviceNumbers |-> trackedServices]

\* the handle of a new interval: one that no interval set holds
NewHandle == CHOOSE h \in 1..MaxIntervals : h \notin intervals

\* if (intervalId) { clearRafInterval(intervalId); intervalId = null; }
ClearInterval ==
    /\ intervals' = intervals \ {intervalId}
    /\ intervalId' = 0

\* stop() (fetchVehicles.js:396-416)
stop ==
    /\ ClearInterval
    /\ trackedServices' = {}

\* the application calls stop()
Stop ==
    /\ pc = "tracker"
    /\ stop
    /\ stopped' = TRUE
    /\ UNCHANGED <<pageVars, routeIdCache, startCalls>>

\* startServices(serviceNumbers) up to its first await (fetchVehicles.js:301-348): with
\* no service it stops; else it clears the interval and the tracked services and asks for
\* the route ids
StartServices(serviceNumbers) ==
    /\ pc = "tracker"
    /\ IF serviceNumbers = {}
       THEN /\ stop
            /\ stopped' = TRUE
            /\ UNCHANGED startCalls
       ELSE /\ Len(startCalls) < MaxStartCalls
            /\ ClearInterval
            /\ trackedServices' = {}
            /\ startCalls' = Append(startCalls,
                                    [serviceNumbers |-> serviceNumbers, at |-> "routeIds"])
            /\ stopped' = FALSE
    /\ UNCHANGED <<pageVars, routeIdCache>>

\* Promise.all(routeIdPromises) resolves in call i, found being the services with a route
\* id (fetchVehicles.js:350-367): they are added to the tracked services; with none
\* tracked the call stops and returns, else it calls updatePositions
RouteIdsResolve(i, found) ==
    /\ pc = "tracker"
    /\ startCalls[i].at = "routeIds"
    /\ found \subseteq startCalls[i].serviceNumbers
    /\ startCalls[i].serviceNumbers \cap routeIdCache \subseteq found
    /\ routeIdCache' = routeIdCache \cup found
    /\ IF trackedServices \cup found = {}
       THEN /\ stop
            /\ startCalls' = RemoveAt(startCalls, i)
       ELSE /\ trackedServices' = trackedServices \cup found
            /\ startCalls' = [startCalls EXCEPT ![i].at = "positions"]
            /\ UNCHANGED <<intervalId, intervals>>
    /\ UNCHANGED <<pageVars, stopped>>

\* a getRouteId of call i rejects: the catch of startServices returns false
\* (fetchVehicles.js:378-381)
RouteIdsReject(i) ==
    /\ pc = "tracker"
    /\ startCalls[i].at = "routeIds"
    /\ startCalls' = RemoveAt(startCalls, i)
    /\ UNCHANGED <<pageVars, intervalId, intervals, trackedServices, routeIdCache, stopped>>

\* await updatePositions() returns in call i (fetchVehicles.js:369-377): with a service
\* tracked the call sets the interval and keeps its handle in intervalId
PositionsReturn(i) ==
    /\ pc = "tracker"
    /\ startCalls[i].at = "positions"
    /\ IF trackedServices # {}
       THEN /\ intervals # 1..MaxIntervals
            /\ intervals' = intervals \cup {NewHandle}
            /\ intervalId' = NewHandle
       ELSE UNCHANGED <<intervalId, intervals>>
    /\ startCalls' = RemoveAt(startCalls, i)
    /\ UNCHANGED <<pageVars, trackedServices, routeIdCache, stopped>>

NextTracker ==
    \/ Stop
    \/ \E serviceNumbers \in SUBSET (1..TrackServices) : StartServices(serviceNumbers)
    \/ \E i \in DOMAIN startCalls, found \in SUBSET (1..TrackServices) :
           RouteIdsResolve(i, found)
    \/ \E i \in DOMAIN startCalls : RouteIdsReject(i)
    \/ \E i \in DOMAIN startCalls : PositionsReturn(i)

\* a page that has just created its tracker
InitTracker ==
    /\ servicesData = <<>>
    /\ stopsData = NoMap
    /\ rankingData = NoMap
    /\ scheduleSource = NoSchedule
    /\ hash = 0
    /\ currentStopId = 0
    /\ routes = <<>>
    /\ orderedStops = <<>>
    /\ targetMajorStopsRef = DEFAULT_TARGET_MAJOR_STOPS
    /\ countMajorRoutesRef = DEFAULT_COUNT_MAJOR_ROUTES
    /\ componentIdle
    /\ input = <<>>
    /\ stopPosMap = NoMap
    /\ pc = "tracker"

SpecTracker == InitTracker /\ [][NextTracker]_vars

----------------------------------------------------------------------------
(* Properties of the stop position engine and of route selection.          *)

Positioned == pc = "positioned"
Pos(s) == stopPosMap[s]
Displayed(route) == Range(RouteStops(route, orderedStops, currentStopId))
DisplayedIds == UNION {Displayed(routes[r]) : r \in DOMAIN routes}
NameOf(s) == getStopName(s, stopsData)
RightEdge == R(100 - RIGHT_PADDING)

\* C1: every position of the result of createStopPositionMap lies in
\* [LEFT_PADDING, 100 - RIGHT_PADDING].
C1_PositionsWithinPadding ==
    Positioned => \A s \in DOMAIN stopPosMap :
                      RLe(R(LEFT_PADDING), Pos(s)) /\ RLe(Pos(s), RightEdge)

\* C2: two stops at different positions are at least MIN_POSITION_DIFF apart, unless
\* both are clamped at the right boundary.
C2_MinimumSeparation ==
    Positioned => \A a, b \in DOMAIN stopPosMap :
                      Pos(a) # Pos(b) /\ ~(Pos(a) = RightEdge /\ Pos(b) = RightEdge)
                      => RLe(R(MIN_POSITION_DIFF), RAbs(RSub(Pos(a), Pos(b))))

\* C3: along every displayed route, in the order the route visits its displayed stops,
\* positions never decrease.
C3_MonotoneAlongRoute ==
    Positioned => \A r \in DOMAIN routes : \A a, b \in Displayed(routes[r]) :
                      findStopIndex(routes[r].stopSequence, a)
                          < findStopIndex(routes[r].stopSequence, b)
                      => RLe(Pos(a), Pos(b))

\* C4: all displayed stop ids that carry one name have one position.
C4_OnePositionPerName ==
    Positioned => \A a, b \in DOMAIN stopPosMap : NameOf(a) = NameOf(b) => Pos(a) = Pos(b)

\* C5: a name displayed on every selected route has exactly one position: every displayed
\* stop id of that name, on every route, has a position and they are all equal.
OnEveryRoute(name) == \A r \in DOMAIN routes : \E s \in Displayed(routes[r]) : NameOf(s) = name

C5_UniversalNameOnePosition ==
    Positioned => \A a, b \in DisplayedIds :
                      NameOf(a) = NameOf(b) /\ OnEveryRoute(NameOf(a))
                      => a \in DOMAIN stopPosMap /\ b \in DOMAIN stopPosMap /\ Pos(a) = Pos(b)

\* C5 witness: two routes or more, and a name on every route that two different ids carry
C5_Witness ==
    /\ Positioned
    /\ Len(routes) >= 2
    /\ \E a, b \in DisplayedIds : a # b /\ NameOf(a) = NameOf(b) /\ OnEveryRoute(NameOf(a))

\* C6: after normalization the smallest position is LEFT_PADDING and, with two distinct
\* positions or more, the largest is 100 - RIGHT_PADDING.
C6_NormalizedToPadding ==
    Positioned /\ DOMAIN stopPosMap # {}
    => LET all == {Pos(s) : s \in DOMAIN stopPosMap}
       IN  /\ RMinOf(all) = R(LEFT_PADDING)
           /\ Cardinality(all) >= 2 => RMaxOf(all) = RightEdge

\* C7: the last stop of every selected route's stop sequence is in orderedStops.
C7_TerminalInOrderedStops ==
    pc \in {"processed", "positioned"}
    => \A r \in DOMAIN routes :
           InSeq(routes[r].stopSequence[Len(routes[r].stopSequence)], orderedStops)

\* C10: on the selected routes the group-size comparator is a strict total order
\* (never 0 for two routes, antisymmetric, transitive), and sorting the selected routes
\* supplied in any order gives the order displayed.
SupplyOrders(n) == {p \in [1..n -> 1..n] : \A i, j \in 1..n : p[i] = p[j] => i = j}

C10_ComparatorTotalOrder ==
    pc \in {"processed", "positioned"}
    => LET Cmp(a, b) == GroupSizeCompare(a, b, routes, stopsData)
           sel == Range(routes)
       IN  /\ \A a, b \in sel : a # b => Cmp(a, b) # 0 /\ (Cmp(a, b) < 0 <=> Cmp(b, a) > 0)
           /\ \A a, b, c \in sel : Cmp(a, b) < 0 /\ Cmp(b, c) < 0 => Cmp(a, c) < 0
           /\ \A p \in SupplyOrders(Len(routes)) :
                  ArraySort([i \in DOMAIN routes |-> routes[p[i]]], Cmp) = routes

\* C10 witness: three selected routes, two of them with the same names throughout (decided
\* by the tie-break), displayed in another order than supplied
C10_Witness ==
    /\ pc = "processed"
    /\ Len(routes) >= 3
    /\ [i \in DOMAIN routes |-> routes[i].routeId] # [i \in DOMAIN input |-> input[i].routeId]
    /\ \E i, j \in DOMAIN routes :
          /\ i # j
          /\ [k \in DOMAIN routes[i].seqForGrouping |-> NameOf(routes[i].seqForGrouping[k])]
             = [k \in DOMAIN routes[j].seqForGrouping |-> NameOf(routes[j].seqForGrouping[k])]

----------------------------------------------------------------------------
(* Properties of the component's requests.                                 *)

Quiescent == pc = "ready" /\ pending = <<>>

\* C8: once no request is waiting, the routes and ordered stops of the diagram shown are
\* those computed for the stop shown as current: a superseded request's result is not kept.
C8_SupersededResultDiscarded ==
    Quiescent /\ View(loading, error, routes, orderedStops) = "diagram"
    => \E ok \in BOOLEAN :
          LET res == processRoutes(RoutesWithTripCounts(currentStopId, servicesData,
                                                        rankingData, ScheduleData(ok)),
                                   currentStopId, stopsData, rankingData,
                                   targetMajorStopsRef, countMajorRoutesRef)
          IN  routes = res.routes /\ orderedStops = res.orderedStops

\* C9: two requests for the same stop with the same schedule outcome and the same bounds,
\* whatever was requested in between, show the same route order, the same ordered stops
\* and the same positions.
C9_SameRequestSameDiagram ==
    \A i, j \in DOMAIN history :
        /\ history[i].drawn /\ history[j].drawn
        /\ history[i].stopId = history[j].stopId
        /\ history[i].ok = history[j].ok
        /\ history[i].target = history[j].target
        /\ history[i].count = history[j].count
        => /\ history[i].routes = history[j].routes
           /\ history[i].orderedStops = history[j].orderedStops
           /\ history[i].positions = history[j].positions

\* the request whose completion a step logs
Completes == Len(history') = Len(history) + 1
Completed == history'[Len(history')]

\* no route passes through the stop, or the terminal filter drops every passing route
ZeroEligible(stopId, ok) ==
    LET found == RoutesWithTripCounts(stopId, servicesData, rankingData, ScheduleData(ok))
    IN  \A i \in DOMAIN found :
            isLastMajorStopInRoute(found[i], stopId, rankingData, targetMajorStopsRef)

HandlesAbsentStop ==
    \/ pc = "ready" /\ hash' # hash /\ hash' # 0 /\ hash' \notin DOMAIN stopsData
    \/ pc = "mounted" /\ pc' = "ready" /\ hash # 0 /\ hash \notin DOMAIN stopsData

\* C12: handling a request for a stop id absent from the stop directory sets the
\* stop-not-found error and loading false, starts no schedule fetch, and leaves the current
\* stop id, the routes and the ordered stops as they were.
C12_StopNotFound ==
    [][HandlesAbsentStop
       => /\ error' = "notFound"
          /\ loading' = FALSE
          /\ pending' = pending
          /\ currentStopId' = currentStopId
          /\ routes' = routes
          /\ orderedStops' = orderedStops]_vars

\* C12 witness: the URL names an absent stop after a diagram was shown; the page shows
\* stop-not-found and keeps the previous request's stop, routes and ordered stops
C12_Witness ==
    /\ pc = "ready"
    /\ hash = NavStops + 1
    /\ error = "notFound" /\ loading = FALSE
    /\ pending = <<>>
    /\ currentStopId = 1 /\ routes # <<>> /\ orderedStops # <<>>

----------------------------------------------------------------------------
(* Properties of route and major-stop selection on ranked networks.        *)

Found == pc \in {"found", "processed", "positioned"}
Processed == pc \in {"processed", "positioned"}

\* the routes found whose stop sequence has a stop after the first occurrence of the
\* selected stop
Onward == {i \in DOMAIN input :
              LET idx == findStopIndex(input[i].stopSequence, currentStopId)
              IN  idx # 0 /\ idx < Len(input[i].stopSequence)}

SelectedIds == {routes[r].routeId : r \in DOMAIN routes}

\* the major-stop bounds the controls can set, up to equivalence on RankStops stops
AnyTarget == (1..(RankStops + 2)) \cup {MAX_TARGET_MAJOR_STOPS}

\* C13: for a route through the selected stop the terminal filter answers "drop" exactly
\* when no stop follows the first occurrence of the selected stop, for every ranking of the
\* stops and every major-stop bound; no selected route has
\* the selected stop alone as forward sequence, and when the route bound does not truncate
\* every route with an onward stop is selected.
C13_TerminalFilter ==
    /\ Found
       => \A i \in DOMAIN input, target \in AnyTarget :
              findStopIndex(input[i].stopSequence, currentStopId) # 0
              => (isLastMajorStopInRoute(input[i], currentStopId, rankingData, target)
                  <=> i \notin Onward)
    /\ Processed
       => /\ \A r \in DOMAIN routes : routes[r].seqForGrouping # <<currentStopId>>
          /\ Cardinality(Onward) <= countMajorRoutesRef
             => \A i \in Onward : input[i].routeId \in SelectedIds

\* C13 witness: target 1; one route ends at the selected stop and is dropped, another goes
\* on through unranked stops only, while a third one's stops are ranked, and is selected
C13_Witness ==
    /\ pc = "processed"
    /\ targetMajorStopsRef = 1
    /\ \E i, j, k \in DOMAIN input :
          /\ input[i].stopSequence = <<currentStopId>>
          /\ input[i].routeId \notin SelectedIds
          /\ j \in Onward /\ input[j].routeId \in SelectedIds
          /\ \A x \in Range(input[j].stopSequence) : Ranking(rankingData, x) = 0
          /\ k \in Onward
          /\ \E x \in Range(input[k].stopSequence) : Ranking(rankingData, x) > 0

\* the routes found that the terminal filter keeps
Eligible == {i \in DOMAIN input :
                ~isLastMajorStopInRoute(input[i], currentStopId, rankingData,
                                        targetMajorStopsRef)}

\* a comes before b in "descending trip count, ties by descending destination ranking"
RanksAbove(a, b) ==
    \/ a.tripCount > b.tripCount
    \/ a.tripCount = b.tripCount /\ a.destinationRanking > b.destinationRanking

\* C14: the selected routes are at most countMajorRoutes eligible routes, as many as the
\* bound allows, and no eligible route left out ranks above a selected one.
C14_TopRoutesSelected ==
    Processed
    => /\ Len(routes) <= countMajorRoutesRef
       /\ SelectedIds \subseteq {input[i].routeId : i \in Eligible}
       /\ Cardinality(SelectedIds) = Len(routes)
       /\ Len(routes) = Cardinality(Eligible) \/ Len(routes) = countMajorRoutesRef
       /\ \A i \in Eligible :
              input[i].routeId \notin SelectedIds
              => \A r \in DOMAIN routes : ~RanksAbove(input[i], routes[r])

\* C14 witness: three eligible routes and a bound of two; the route left out has as many
\* trips as a selected one and a lower destination ranking, another selected one has more
C14_Witness ==
    /\ pc = "processed"
    /\ Cardinality(Eligible) = 3 /\ Len(routes) = 2
    /\ \E i \in Eligible, r, q \in DOMAIN routes :
          /\ input[i].routeId \notin SelectedIds
          /\ RanksAbove(routes[r], input[i]) /\ routes[r].tripCount = input[i].tripCount
          /\ routes[q].tripCount > input[i].tripCount

\* the stops reachable forward from the selected stop on a selected route
Candidates ==
    UNION {Range(SliceFrom(routes[r].stopSequence,
                           findStopIndex(routes[r].stopSequence, currentStopId) - 1)) :
              r \in {q \in DOMAIN routes : RouteHasStop(routes[q], currentStopId)}}

MaxRanking(S) == CHOOSE m \in {Ranking(rankingData, x) : x \in S} :
                     \A x \in S : Ranking(rankingData, x) <= m

\* C15: every candidate stop whose ranking is at least 20% of the maximum ranking among
\* the candidates is in orderedStops, the major-stop list processRoutes sets.
C15_SignificantStopsListed ==
    Processed /\ Candidates # {}
    => \A x \in Candidates :
           5 * Ranking(rankingData, x) >= MaxRanking(Candidates) => InSeq(x, orderedStops)

----------------------------------------------------------------------------
(* Properties of the label layout.                                         *)

Drift(label) == RAbs(RSub(label.x, label.originalX))

\* C16: after the horizontal overlap resolution every label's x is within
\* MAX_DRIFT_PERCENT of its original anchor x, for the anchors the position engine gives.
C16_LabelDriftBounded ==
    pc = "drawn" => \A i \in DOMAIN labelData : RLe(Drift(labelData[i]), R(MAX_DRIFT_PERCENT))

\* C16 witness: one label was pushed as far as the bound allows, another one by less, and
\* a third stayed on its anchor
C16_Witness ==
    /\ pc = "drawn"
    /\ \E i, j, k \in DOMAIN labelData :
          /\ Drift(labelData[i]) = R(MAX_DRIFT_PERCENT)
          /\ RLt(R(0), Drift(labelData[j])) /\ RLt(Drift(labelData[j]), R(MAX_DRIFT_PERCENT))
          /\ labelData[k].x = labelData[k].originalX

----------------------------------------------------------------------------
(* Properties of the routes found on catalogs with sequence variants.      *)

\* C17: every route findRoutesForStop returns for the selected stop has a stopSequence
\* that contains the stop, and every selected route's forward sequence begins at it.
C17_FoundRouteContainsStop ==
    /\ Found => \A i \in DOMAIN input : InSeq(currentStopId, input[i].stopSequence)
    /\ Processed
       => \A r \in DOMAIN routes :
              /\ routes[r].seqForGrouping # <<>>
              /\ routes[r].seqForGrouping[1] = currentStopId

----------------------------------------------------------------------------
(* Properties of the arrival page.                                         *)

\* live arrival information is unavailable to a fetchServices run: live arrivals are not
\* enabled for the city, or a run's live request has failed or come back empty
LiveUnavailable ==
    \/ ~liveArrivalsEnabled
    \/ \E i \in DOMAIN fetching : fetching[i].stage = "schedule"

\* C18: whenever fetchServices has set the status to 'loading' and live arrival information
\* is unavailable, the status eventually becomes 'static' or 'error'.
C18_LoadingEndsInFallback ==
    (fetchServicesStatus = "loading" /\ LiveUnavailable)
        ~> (fetchServicesStatus \in {"static", "error"})

----------------------------------------------------------------------------
(* Properties of the route order.                                          *)

\* the name at source index idx of a route's forward sequence, -1 when it has no stop there
ForwardNameAt(route, idx) ==
    IF idx + 1 <= Len(route.seqForGrouping)
    THEN getStopName(route.seqForGrouping[idx + 1], stopsData) ELSE -1

\* the source indices >= 1 at which the forward sequences of two routes differ in name
DiffersAt(a, b) ==
    {idx \in 1..(MaxInt(Len(a.seqForGrouping), Len(b.seqForGrouping)) - 1) :
        ForwardNameAt(a, idx) # ForwardNameAt(b, idx)}

\* the number of selected routes whose forward sequence has `name` at source index idx
SharedBy(idx, name) ==
    Cardinality({r \in DOMAIN routes : ForwardNameAt(routes[r], idx) = name})

\* C19: for two selected routes whose forward sequences first differ in name at index
\* i >= 1, the comparator and the displayed order put first the route whose name at i is
\* shared by more selected routes at i, and put a route with no stop at i after one that
\* has a stop there.
C19_LargerGroupFirst ==
    Processed
    => \A p, q \in DOMAIN routes :
           LET a == routes[p]
               b == routes[q]
               i == MinOf(DiffersAt(a, b))
               First(x, y) == GroupSizeCompare(x, y, routes, stopsData) < 0
           IN  DiffersAt(a, b) # {}
               => /\ ForwardNameAt(a, i) # -1 /\ ForwardNameAt(b, i) # -1
                     /\ SharedBy(i, ForwardNameAt(a, i)) > SharedBy(i, ForwardNameAt(b, i))
                     => First(a, b) /\ ~First(b, a) /\ p < q
                  /\ ForwardNameAt(a, i) # -1 /\ ForwardNameAt(b, i) = -1
                     => First(a, b) /\ ~First(b, a) /\ p < q

\* C19 witness: a route is displayed ahead of one found before it because its name at the
\* first difference is shared by more routes, and a route that ends earlier is displayed
\* after one that goes on
C19_Witness ==
    /\ pc = "processed"
    /\ \E p, q \in DOMAIN routes :
          LET i == MinOf(DiffersAt(routes[p], routes[q]))
          IN  /\ p < q
              /\ DiffersAt(routes[p], routes[q]) # {}
              /\ ForwardNameAt(routes[p], i) # -1 /\ ForwardNameAt(routes[q], i) # -1
              /\ SharedBy(i, ForwardNameAt(routes[p], i)) > SharedBy(i, ForwardNameAt(routes[q], i))
              /\ \E m, n \in DOMAIN input :
                    /\ m < n
                    /\ input[m].routeId = routes[q].routeId
                    /\ input[n].routeId = routes[p].routeId
    /\ \E p, q \in DOMAIN routes :
          LET i == MinOf(DiffersAt(routes[p], routes[q]))
          IN  /\ p < q
              /\ DiffersAt(routes[p], routes[q]) # {}
              /\ ForwardNameAt(routes[p], i) # -1 /\ ForwardNameAt(routes[q], i) = -1

----------------------------------------------------------------------------
(* Properties of the placement of shared names.                            *)

\* C20: before normalization every group-local name (shared by two or more routes of one
\* group, not by all) is positioned strictly to the right of every cross-group name.
C20_GroupLocalRightOfCrossGroup ==
    Positioned
    => LET Holds(common) ==
               \A g \in DOMAIN common.gnp : \A k \in DOMAIN common.gnp[g] :
                   \A c \in DOMAIN common.crossMap :
                       RLt(common.crossMap[c][2], common.gnp[g][k][2])
       IN  Holds(CommonPlacement(routes, orderedStops, currentStopId, stopsData))

----------------------------------------------------------------------------
(* Properties of the stops shown per route.                                *)

\* the forward sequence of a selected route: its stops from the selected stop on
ForwardOf(route) ==
    SliceFrom(route.stopSequence, findStopIndex(route.stopSequence, currentStopId) - 1)

\* C21: on every selected route through the selected stop, the stops displayed are stops of
\* the route's forward sequence and are displayed in the order the route visits them.
C21_DisplayedIsForwardSubsequence ==
    Processed
    => \A r \in DOMAIN routes :
           RouteHasStop(routes[r], currentStopId)
           => LET Holds(shown, fwd) ==
                      /\ \A i \in DOMAIN shown : InSeq(shown[i], fwd)
                      /\ \A i, j \in DOMAIN shown :
                             i < j => IndexOf(fwd, shown[i]) < IndexOf(fwd, shown[j])
              IN  Holds(RouteStops(routes[r], orderedStops, currentStopId),
                        ForwardOf(routes[r]))

----------------------------------------------------------------------------
(* Properties of the label layout after the vertical pass.                 *)
Drawn == pc = "drawn"

\* two labels close enough in x to stack
Stacked(a, b) == RLt(RAbs(RSub(a.x, b.x)), R(StackTolerance))

\* stacking splits the labels into clusters: the comparator of the sort before the vertical
\* pass is then a consistent order, and every engine sorts the labels the same way
ClustersApart ==
    \A i, j, k \in DOMAIN labelData :
        Stacked(labelData[i], labelData[j]) /\ Stacked(labelData[j], labelData[k])
        => Stacked(labelData[i], labelData[k])

\* C22: after the vertical pass any two labels within the stacking tolerance in x are at
\* least verticalSpacing apart in y (stated for label sets that stacking splits into clusters).
C22_StackedLabelsSeparated ==
    Drawn /\ ClustersApart
    => \A i, j \in DOMAIN labelData :
           i # j /\ Stacked(labelData[i], labelData[j])
           => RLe(R(verticalSpacing), RAbs(RSub(labelData[i].y, labelData[j].y)))

\* the route rows on which a name appears: the route indices pushed to namePositions[name]
RowsOf(name) ==
    LET Take(pushes) == {pushes[i].routeIndex : i \in {j \in DOMAIN pushes : pushes[j].name = name}}
    IN  Take(NamePushes(routes, orderedStops, currentStopId, stopsData, stopPosMap))

\* C23: the labels of a merged name are the maximal runs of consecutive rows on which the name
\* appears: every label's rows carry the name, every row of the name is in a label, and two
\* labels of one name neither share a row nor are adjacent.
C23_LabelsAreMaximalRuns ==
    Drawn
    => \A i \in DOMAIN labelData :
           labelData[i].isCommon
           => LET l == labelData[i]
              IN  /\ l.segmentStart <= l.segmentEnd
                  /\ (l.segmentStart..l.segmentEnd) \subseteq RowsOf(l.text)
                  /\ \A row \in RowsOf(l.text) :
                         \E j \in DOMAIN labelData :
                             /\ labelData[j].text = l.text
                             /\ row \in labelData[j].segmentStart..labelData[j].segmentEnd
                  /\ \A j \in DOMAIN labelData :
                         j # i /\ labelData[j].text = l.text
                         => \/ l.segmentEnd + 1 < labelData[j].segmentStart
                            \/ labelData[j].segmentEnd + 1 < l.segmentStart

\* C28: the marker position map has an entry for the key of every label, and the entry is
\* the label's own marker: its percentage is the position the label was built from.
C28_LabelAtOwnMarker ==
    Drawn
    => LET Holds(markers) ==
               \A i \in DOMAIN labelData :
                   /\ MapHas(markers, MarkerKey(labelData[i]))
                   /\ MapGet(markers, MarkerKey(labelData[i])) = labelData[i].originalX
       IN  Holds(MarkerPositionsMap(NamePushes(routes, orderedStops, currentStopId,
                                               stopsData, stopPosMap)))

\* the user has just changed one of the two bounds
BoundChanged ==
    \/ targetMajorStops' # targetMajorStops
    \/ countMajorRoutes' # countMajorRoutes

\* processRoutesData has just run
Recomputed == Len(history') = Len(history) + 1

SharedNames ==
    {n \in Range(OrderedNames(orderedStops, currentStopId, stopsData)) :
        /\ Cardinality(NameToRoutes(routes, orderedStops, currentStopId, stopsData, n)) >= 2
        /\ n \notin UniversalStops(routes, orderedStops, currentStopId, stopsData)}

\* C25: for every diagram, crossGroupStops equals universalStops, the route groups are
\* disjoint and cover the routes, and all routes of a shared name that is not universal
\* lie in one group
C25_CrossGroupIsUniversal ==
    routes # <<>> =>
        LET routeGroups == RouteGroups(routes, orderedStops, currentStopId, stopsData)
        IN  /\ CrossGroupStops(routes, orderedStops, currentStopId, stopsData)
                  = UniversalStops(routes, orderedStops, currentStopId, stopsData)
            /\ \A r \in DOMAIN routes :
                   Cardinality({g \in DOMAIN routeGroups : r \in routeGroups[g]}) = 1
            /\ \A n \in SharedNames :
                   \E g \in DOMAIN routeGroups :
                       NameToRoutes(routes, orderedStops, currentStopId, stopsData, n)
                           \subseteq routeGroups[g]

\* three routes in one group through two shared names with different route sets, none
\* of them universal
C25_Witness ==
    /\ Len(routes) = 3
    /\ Len(RouteGroups(routes, orderedStops, currentStopId, stopsData)) = 1
    /\ \E n, m \in SharedNames :
           NameToRoutes(routes, orderedStops, currentStopId, stopsData, n)
               # NameToRoutes(routes, orderedStops, currentStopId, stopsData, m)

\* C26: in a behaviour where every schedule fetch settles, the loading view always ends,
\* and a component that is not loading shows an error or the outcome of a run of
\* processRoutesData
C26_LoadingEnds ==
    /\ FetchesSettle => (loading ~> ~loading)
    /\ [](~loading => error # "none" \/ history # <<>>)

\* after navigations to two stops all fetches have settled and a diagram is shown
C26_Witness ==
    /\ ~loading
    /\ pending = <<>>
    /\ View(loading, error, routes, orderedStops) = "diagram"
    /\ \E i, j \in DOMAIN history : history[i].stopId # history[j].stopId

\* the component's state as the handler reads and writes it
HandlerState ==
    [error |-> error, loading |-> loading, currentStopId |-> currentStopId,
     pending |-> pending]

\* C27: the render that follows a run of the handler started by the recompute effect
\* changes none of the effect's dependencies, after a hash change as after a change of a
\* bound, so the effect does not run again; one step of the component starts at most two
\* schedule fetches
C27_EffectSettles ==
    /\ [](\A h \in Hashes :
            LET r == handleHashChange(h, currentStopId, pending, stopsData)
                afterHash == RecomputeEffect(h, currentStopId, FALSE, r, stopsData)
            IN  RecomputeEffect(h, r.currentStopId, FALSE, afterHash, stopsData) = afterHash)
    /\ [](View(loading, error, routes, orderedStops) = "diagram" =>
            LET afterBound == RecomputeEffect(hash, currentStopId, TRUE, HandlerState,
                                              stopsData)
            IN  RecomputeEffect(hash, currentStopId, FALSE, afterBound, stopsData)
                    = afterBound)
    /\ [][Started(pending') <= Started(pending) + 2]_vars

\* the data load and a hash change to another stop have each run the handler twice
C27_Witness ==
    /\ pc = "ready"
    /\ Len(pending) = 4
    /\ pending[1].stopId = pending[2].stopId
    /\ pending[3].stopId = pending[4].stopId
    /\ pending[1].stopId # pending[3].stopId
    /\ currentStopId = pending[4].stopId

\* fetchServices has just run
FetchStarted == fetchRuns' = fetchRuns + 1

\* the retry timers and animation frames that are set
Timers == {i \in DOMAIN fetching : fetching[i].stage = "retry"}

\* C29: every run of fetchServices asks for the stop now selected and belongs to the
\* polling chain that the effect now in place has started, and at most one retry timer
\* is set at any time
C29_OnePollingChain ==
    /\ [](Cardinality(Timers) <= 1)
    /\ [][FetchStarted /\ liveArrivalsEnabled =>
            /\ fetching'[Len(fetching')].id = busStop'
            /\ fetching'[Len(fetching')].current]_vars

----------------------------------------------------------------------------
(* Properties of the vehicle tracker.                                      *)

\* C30: at most one interval set by the tracker is active at any time, and from a stop()
\* until the next startServices call no interval is active, getStatus reports no tracking
\* and no service is tracked
C30_OneIntervalNoneAfterStop ==
    /\ Cardinality(intervals) <= 1
    /\ stopped =>
          /\ intervals = {}
          /\ ~getStatus.isTracking
          /\ getStatus.serviceNumbers = {}

====
